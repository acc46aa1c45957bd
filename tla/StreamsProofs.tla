---------------------------- MODULE StreamsProofs ----------------------------
(***************************************************************************)
(* Proofs about StreamIO and Streams: what make_packet_info, make_header   *)
(* and read_header compute for every size of a frame, the types of the     *)
(* stream model for every bound, and that every frame an end loads is one  *)
(* the other sent, at most once and, while no datagram overtakes another,  *)
(* in order, or else noise with a fault of the network to cause it.        *)
(***************************************************************************)
EXTENDS Streams, SequenceTheorems, FiniteSetTheorems, TLAPS

-----------------------------------------------------------------------------
(***************************************************************************)
(* Integers.  Quotients by what is not a constant are described to the     *)
(* provers by what the quotient and the remainder add up to.               *)
(***************************************************************************)
LEMMA MultipleIsLarger ==
  ASSUME NEW a \in Nat, NEW b \in Nat, a >= 1
  PROVE  a * b >= b
OBVIOUS

LEMMA DivisionAddsUp ==
  ASSUME NEW a \in Nat, NEW b \in Nat, b > 0
  PROVE  /\ a \div b \in Nat /\ a % b \in Nat /\ a % b < b
         /\ a = b * (a \div b) + (a % b)
OBVIOUS

LEMMA DivisionIsUnique ==
  ASSUME NEW b \in Nat, NEW q \in Nat, NEW p \in Nat, NEW r \in Nat,
         NEW t \in Nat, r < b, t < b, b * q + r = b * p + t
  PROVE  q = p
<1>1. ASSUME q > p PROVE FALSE
  <2>1. (q - p) * b >= b
    BY <1>1, MultipleIsLarger
  <2> QED BY <2>1
<1>2. ASSUME p > q PROVE FALSE
  <2>1. (p - q) * b >= b
    BY <1>2, MultipleIsLarger
  <2> QED BY <2>1
<1> QED BY <1>1, <1>2

LEMMA Quotient ==
  ASSUME NEW b \in Nat, NEW q \in Nat, NEW r \in Nat, r < b
  PROVE  (b * q + r) \div b = q
<1> DEFINE a == b * q + r
<1>1. a \in Nat /\ b > 0
  OBVIOUS
<1>2. a \div b \in Nat /\ a % b \in Nat /\ a % b < b
      /\ a = b * (a \div b) + (a % b)
  <2> HIDE DEF a
  <2> QED BY <1>1, DivisionAddsUp
<1>3. b * q + r = b * (a \div b) + (a % b)
  BY <1>2
<1> HIDE DEF a
<1>4. q = a \div b
  BY <1>2, <1>3, DivisionIsUnique
<1> QED BY <1>4 DEF a

-----------------------------------------------------------------------------
(***************************************************************************)
(* make_packet_info, case by case.                                         *)
(***************************************************************************)

\* The sizes receive_data takes.
Frames == {s \in Nat : s < MaxAllocation}

\* A frame below the threshold is one chunk.
LEMMA SmallFrame ==
  ASSUME NEW type, NEW s \in Frames, s < m_SINGLE_PACKAGE_THRESHOLD
  PROVE  make_packet_info(type, s) = Info(type_to_char(type), 1, s, 0)
BY DEF make_packet_info

\* Otherwise there are m chunks of p bytes, and fewer than m and than p bytes
\* are left.
LEMMA LargeFrame ==
  ASSUME NEW type, NEW s \in Frames, s >= m_SINGLE_PACKAGE_THRESHOLD
  PROVE  \E m, p, r \in Nat :
           /\ m >= 10 /\ m <= 112 /\ p <= m_MAX_PACKET_SIZE /\ r < m /\ r < p
           /\ m * p + r = s
           /\ make_packet_info(type, s) = Info(type_to_char(type), m, p, r)
<1> DEFINE grow == IF s > m_MIN_NB_PACKETS * m_MAX_PACKET_SIZE
                   THEN (s - m_MIN_NB_PACKETS * m_MAX_PACKET_SIZE)
                          \div m_MAX_PACKET_SIZE + 1
                   ELSE 0
           m == m_MIN_NB_PACKETS + grow
           p == s \div m
           r == s % m
<1>0. ~ (s < m_SINGLE_PACKAGE_THRESHOLD)
  BY SMT DEF Frames, m_SINGLE_PACKAGE_THRESHOLD
<1>1. /\ m \in Nat /\ m >= 10 /\ m <= 112
      /\ s <= 90000 => m = 10
      /\ s < 9000 * m + 1
      /\ s > 90000 => s < 9000 * m
  BY SMT DEF Frames, MaxAllocation, m_MIN_NB_PACKETS, m_MAX_PACKET_SIZE
<1>2. make_packet_info(type, s) = Info(type_to_char(type), s \div p, p, r)
  BY <1>0, Zenon DEF make_packet_info
<1>3. s \in Nat /\ s >= 1000 /\ s < 1000000
  BY SMT DEF Frames, m_SINGLE_PACKAGE_THRESHOLD, MaxAllocation
<1> HIDE DEF grow, m
<1>4. p \in Nat /\ r \in Nat /\ r < m /\ s = m * p + r
  BY <1>1, <1>3, DivisionAddsUp
<1> HIDE DEF p, r
<1>5. p <= m_MAX_PACKET_SIZE
  <2> SUFFICES ASSUME p >= 9001 PROVE FALSE
    BY <1>4, SMT DEF m_MAX_PACKET_SIZE
  <2>1. m * p >= m * 9001
    BY <1>1, <1>4, SMT
  <2> QED BY <1>1, <1>3, <1>4, <2>1, SMT
<1>6. r < p
  <2>1. CASE s <= 90000
    <3>1. s = 10 * p + r /\ r < 10
      BY <1>1, <1>4, <2>1, SMT
    <3> QED BY <1>3, <1>4, <3>1, SMT
  <2>2. CASE s > 90000
    <3> SUFFICES ASSUME p <= 112 PROVE FALSE
      BY <1>1, <1>4, SMT
    <3>1. m * p <= 112 * 112
      BY <1>1, <1>4, SMT
    <3> QED BY <1>1, <1>4, <2>2, <3>1, SMT
  <2> QED BY <1>3, <2>1, <2>2, SMT
<1>7. s \div p = m
  <2>1. s = p * m + r
    BY <1>1, <1>4, SMT
  <2> QED BY <1>1, <1>4, <1>6, <2>1, Quotient
<1>8. make_packet_info(type, s) = Info(type_to_char(type), m, p, r)
  BY <1>2, <1>7, Zenon
<1>9. m * p + r = s
  BY <1>4, Zenon
<1>10. m \in Nat /\ m >= 10 /\ m <= 112
  BY <1>1, SMT
<1> QED BY <1>4, <1>5, <1>6, <1>8, <1>9, <1>10, Zenon

\* In either case the chunks and the remainder are all of the frame.
LEMMA PacketInfo ==
  ASSUME NEW type, NEW s \in Frames
  PROVE  \E nb, p, r \in Nat :
           /\ nb >= 1 /\ nb <= 112 /\ p <= m_MAX_PACKET_SIZE /\ r < 112
           /\ nb * p + r = s
           /\ make_packet_info(type, s) = Info(type_to_char(type), nb, p, r)
<1>1. CASE s < m_SINGLE_PACKAGE_THRESHOLD
  <2>1. /\ 1 \in Nat /\ s \in Nat /\ 0 \in Nat /\ 1 >= 1 /\ 1 <= 112
        /\ s <= m_MAX_PACKET_SIZE /\ 0 < 112 /\ 1 * s + 0 = s
    BY <1>1, SMT DEF Frames, m_SINGLE_PACKAGE_THRESHOLD, m_MAX_PACKET_SIZE
  <2>2. make_packet_info(type, s) = Info(type_to_char(type), 1, s, 0)
    BY <1>1, SmallFrame
  <2> QED BY <2>1, <2>2, Zenon
<1>2. CASE s >= m_SINGLE_PACKAGE_THRESHOLD
  <2>1. PICK m, p, r \in Nat :
          /\ m >= 10 /\ m <= 112 /\ p <= m_MAX_PACKET_SIZE /\ r < m /\ r < p
          /\ m * p + r = s
          /\ make_packet_info(type, s) = Info(type_to_char(type), m, p, r)
    BY <1>2, LargeFrame
  <2>2. m >= 1 /\ r < 112
    BY <2>1, SMT
  <2> QED BY <2>1, <2>2, Zenon
<1>3. s < m_SINGLE_PACKAGE_THRESHOLD \/ s >= m_SINGLE_PACKAGE_THRESHOLD
  BY SMT DEF Frames, m_SINGLE_PACKAGE_THRESHOLD
<1> QED BY <1>1, <1>2, <1>3, Zenon

-----------------------------------------------------------------------------
(***************************************************************************)
(* The header.  The first four of the eight bytes that push_to_header      *)
(* writes are what read_header_item puts together again.                   *)
(***************************************************************************)
Byte0(v) == v % 256
Byte1(v) == (v \div 256) % 256
Byte2(v) == (v \div 65536) % 256
Byte3(v) == v \div 16777216

LEMMA FourBytes ==
  ASSUME NEW v \in Nat
  PROVE  /\ Byte0(v) \in Nat /\ Byte1(v) \in Nat /\ Byte2(v) \in Nat
         /\ Byte3(v) \in Nat
         /\ Byte0(v) + 256 * Byte1(v) + 65536 * Byte2(v)
              + 16777216 * Byte3(v) = v
BY SMT DEF Byte0, Byte1, Byte2, Byte3

LEMMA PushToHeader ==
  ASSUME NEW v \in Nat, NEW S, Nat \subseteq S
  PROVE  /\ push_to_header(v) \in Seq(S) /\ Len(push_to_header(v)) = 8
         /\ push_to_header(v)[1] = Byte0(v)
         /\ push_to_header(v)[2] = Byte1(v)
         /\ push_to_header(v)[3] = Byte2(v)
         /\ push_to_header(v)[4] = Byte3(v)
<1> DEFINE low == <<Byte0(v), Byte1(v), Byte2(v), Byte3(v)>>
           high == <<0, 0, 0, 0>>
<1>1. push_to_header(v) = low \o high
  BY SMT DEF push_to_header, Byte0, Byte1, Byte2, Byte3
<1>2. /\ low \in Seq(S) /\ Len(low) = 4
      /\ low[1] = Byte0(v) /\ low[2] = Byte1(v)
      /\ low[3] = Byte2(v) /\ low[4] = Byte3(v)
  BY FourBytes, SMT
<1>3. high \in Seq(S) /\ Len(high) = 4
  BY SMT
<1> HIDE DEF low, high
<1>4. /\ low \o high \in Seq(S) /\ Len(low \o high) = Len(low) + Len(high)
      /\ \A i \in 1..(Len(low) + Len(high)) : (low \o high)[i] =
           IF i <= Len(low) THEN low[i] ELSE high[i - Len(low)]
  BY <1>2, <1>3, ConcatProperties
<1> QED BY <1>1, <1>2, <1>3, <1>4, SMT

\* What the receiver reads is what was sent.
LEMMA HeaderIsRead ==
  ASSUME NEW k, NEW nb \in Nat, NEW p \in Nat, NEW r \in Nat
  PROVE  read_header(make_header(Info(k, nb, p, r))) = Info(k, nb, p, r)
<1> DEFINE S == Nat \cup {k}
           x == <<k>>
           N == push_to_header(nb)
           P == push_to_header(p)
           R == push_to_header(r)
           h1 == x \o N
           h2 == h1 \o P
           h3 == h2 \o R
<1>1. make_header(Info(k, nb, p, r)) = h3
  BY DEF make_header, Info
<1>2. x \in Seq(S) /\ Len(x) = 1 /\ x[1] = k
  OBVIOUS
<1>s. Nat \subseteq S
  OBVIOUS
<1> HIDE DEF S
<1>3. /\ N \in Seq(S) /\ Len(N) = 8 /\ P \in Seq(S) /\ Len(P) = 8
      /\ R \in Seq(S) /\ Len(R) = 8
  BY <1>s, PushToHeader DEF N, P, R
<1> HIDE DEF x, N, P, R
<1>4. /\ h1 \in Seq(S) /\ Len(h1) = 9 /\ h1[1] = k
      /\ \A i \in 1..8 : h1[1 + i] = N[i]
  <2>1. /\ h1 \in Seq(S) /\ Len(h1) = Len(x) + Len(N)
        /\ \A i \in 1..(Len(x) + Len(N)) : h1[i] =
             IF i <= Len(x) THEN x[i] ELSE N[i - Len(x)]
    BY <1>2, <1>3, ConcatProperties
  <2> HIDE DEF h1
  <2> QED BY <1>2, <1>3, <2>1
<1> HIDE DEF h1
<1>5. /\ h2 \in Seq(S) /\ Len(h2) = 17 /\ \A i \in 1..9 : h2[i] = h1[i]
      /\ \A i \in 1..8 : h2[9 + i] = P[i]
  <2>1. /\ h2 \in Seq(S) /\ Len(h2) = Len(h1) + Len(P)
        /\ \A i \in 1..(Len(h1) + Len(P)) : h2[i] =
             IF i <= Len(h1) THEN h1[i] ELSE P[i - Len(h1)]
    BY <1>3, <1>4, ConcatProperties
  <2> HIDE DEF h2
  <2> QED BY <1>3, <1>4, <2>1
<1> HIDE DEF h2
<1>6. /\ \A i \in 1..17 : h3[i] = h2[i]
      /\ \A i \in 1..8 : h3[17 + i] = R[i]
  <2>1. \A i \in 1..(Len(h2) + Len(R)) : h3[i] =
          IF i <= Len(h2) THEN h2[i] ELSE R[i - Len(h2)]
    BY <1>3, <1>5, ConcatProperties, Zenon
  <2> HIDE DEF h3
  <2>2. Len(h2) = 17 /\ Len(R) = 8
    BY <1>3, <1>5
  <2>3. \A i \in 1..17 : h3[i] = h2[i]
    BY <2>1, <2>2
  <2>4. \A i \in 1..8 : h3[17 + i] = R[i]
    BY <2>1, <2>2
  <2> QED BY <2>3, <2>4
<1> HIDE DEF h3
<1>7. /\ h3[1] = k
      /\ h3[2] = N[1] /\ h3[3] = N[2] /\ h3[4] = N[3] /\ h3[5] = N[4]
      /\ h3[10] = P[1] /\ h3[11] = P[2] /\ h3[12] = P[3] /\ h3[13] = P[4]
      /\ h3[18] = R[1] /\ h3[19] = R[2] /\ h3[20] = R[3] /\ h3[21] = R[4]
  <2>1. /\ h3[1] = h2[1] /\ h3[2] = h2[2] /\ h3[3] = h2[3] /\ h3[4] = h2[4]
        /\ h3[5] = h2[5] /\ h3[10] = h2[10] /\ h3[11] = h2[11]
        /\ h3[12] = h2[12] /\ h3[13] = h2[13]
        /\ h3[18] = R[1] /\ h3[19] = R[2] /\ h3[20] = R[3] /\ h3[21] = R[4]
    BY <1>6
  <2>2. /\ h2[1] = h1[1] /\ h2[2] = h1[2] /\ h2[3] = h1[3] /\ h2[4] = h1[4]
        /\ h2[5] = h1[5]
        /\ h2[10] = P[1] /\ h2[11] = P[2] /\ h2[12] = P[3] /\ h2[13] = P[4]
    BY <1>5
  <2>3. /\ h1[1] = k
        /\ h1[2] = N[1] /\ h1[3] = N[2] /\ h1[4] = N[3] /\ h1[5] = N[4]
    BY <1>4
  <2> QED BY <2>1, <2>2, <2>3
<1>8. /\ N[1] = Byte0(nb) /\ N[2] = Byte1(nb) /\ N[3] = Byte2(nb)
      /\ N[4] = Byte3(nb)
      /\ P[1] = Byte0(p) /\ P[2] = Byte1(p) /\ P[3] = Byte2(p) /\ P[4] = Byte3(p)
      /\ R[1] = Byte0(r) /\ R[2] = Byte1(r) /\ R[3] = Byte2(r) /\ R[4] = Byte3(r)
  BY <1>s, PushToHeader DEF N, P, R
<1>9. read_header_item(h3, 2) = nb
  <2>1. read_header_item(h3, 2)
          = h3[2] + 256 * h3[3] + 65536 * h3[4] + 16777216 * h3[5]
    BY SMT DEF read_header_item
  <2>2. /\ h3[2] = Byte0(nb) /\ h3[3] = Byte1(nb)
        /\ h3[4] = Byte2(nb) /\ h3[5] = Byte3(nb)
    BY <1>7, <1>8
  <2> QED BY <2>1, <2>2, FourBytes, SMT
<1>10. read_header_item(h3, 10) = p
  <2>1. read_header_item(h3, 10)
          = h3[10] + 256 * h3[11] + 65536 * h3[12] + 16777216 * h3[13]
    BY SMT DEF read_header_item
  <2>2. /\ h3[10] = Byte0(p) /\ h3[11] = Byte1(p)
        /\ h3[12] = Byte2(p) /\ h3[13] = Byte3(p)
    BY <1>7, <1>8
  <2> QED BY <2>1, <2>2, FourBytes, SMT
<1>11. read_header_item(h3, 18) = r
  <2>1. read_header_item(h3, 18)
          = h3[18] + 256 * h3[19] + 65536 * h3[20] + 16777216 * h3[21]
    BY SMT DEF read_header_item
  <2>2. /\ h3[18] = Byte0(r) /\ h3[19] = Byte1(r)
        /\ h3[20] = Byte2(r) /\ h3[21] = Byte3(r)
    BY <1>7, <1>8
  <2> QED BY <2>1, <2>2, FourBytes, SMT
<1> QED BY <1>1, <1>7, <1>9, <1>10, <1>11, SMT DEF read_header

-----------------------------------------------------------------------------
(***************************************************************************)
(* send_data and the number of datagrams receive_data waits for.           *)
(***************************************************************************)
LEMMA DataLength ==
  ASSUME NEW frame, NEW k, NEW nb \in Nat, NEW p \in Nat, NEW r \in Nat
  PROVE  Len(send_data(frame, Info(k, nb, p, r)))
           = nb + IF r = 0 THEN 0 ELSE 1
<1> DEFINE S == {ChunkOf(frame, i, p) : i \in 1..nb} \cup {ChunkOf(frame, nb + 1, r)}
           a == [i \in 1..nb |-> ChunkOf(frame, i, p)]
           b == IF r = 0 THEN <<>> ELSE <<ChunkOf(frame, nb + 1, r)>>
<1>1. send_data(frame, Info(k, nb, p, r)) = a \o b
  BY DEF send_data, Info
<1>2. a \in Seq(S) /\ Len(a) = nb
  OBVIOUS
<1>3. b \in Seq(S) /\ (r = 0 => Len(b) = 0) /\ (r # 0 => Len(b) = 1)
  <2>1. CASE r = 0
    BY <2>1
  <2>2. CASE r # 0
    BY <2>2
  <2> QED BY <2>1, <2>2
<1> HIDE DEF S, a, b
<1>4. Len(a \o b) = Len(a) + Len(b)
  BY <1>2, <1>3, ConcatProperties
<1> QED BY <1>1, <1>2, <1>3, <1>4

-----------------------------------------------------------------------------
(***************************************************************************)
(* The framing, for every size.                                            *)
(***************************************************************************)
AddsUp(type, s) ==
  LET info == make_packet_info(type, s)
  IN /\ info.nb_packets * info.packet_size + info.rem_size = s
     /\ info.packet_size <= m_MAX_PACKET_SIZE
     /\ read_header(make_header(info)) = info
     /\ Expected(info) = Len(send_data(1, info))

LEMMA EverySizeAddsUp ==
  ASSUME NEW type, NEW s \in Frames
  PROVE  AddsUp(type, s)
<1>1. PICK nb, p, r \in Nat :
        /\ nb >= 1 /\ nb <= 112 /\ p <= m_MAX_PACKET_SIZE /\ r < 112
        /\ nb * p + r = s
        /\ make_packet_info(type, s) = Info(type_to_char(type), nb, p, r)
  BY PacketInfo
<1> DEFINE k == type_to_char(type)
           info == Info(k, nb, p, r)
<1>2. info.nb_packets = nb /\ info.packet_size = p /\ info.rem_size = r
  BY Zenon DEF Info
<1>3. read_header(make_header(info)) = info
  <2> HIDE DEF k
  <2> QED BY HeaderIsRead
<1>4. Len(send_data(1, info)) = nb + IF r = 0 THEN 0 ELSE 1
  <2> HIDE DEF k
  <2> QED BY DataLength
<1>5. make_packet_info(type, s) = info
  BY <1>1, Zenon
<1> HIDE DEF info
<1>6. Expected(info) = nb + IF r = 0 THEN 0 ELSE 1
  <2>1. ~ (info.nb_packets * info.packet_size + info.rem_size >= MaxAllocation)
    BY <1>1, <1>2, SMT DEF Frames, MaxAllocation
  <2> QED BY <1>2, <2>1, Zenon DEF Expected
<1>7. /\ info.nb_packets * info.packet_size + info.rem_size = s
      /\ info.packet_size <= m_MAX_PACKET_SIZE
  BY <1>1, <1>2, Zenon
<1>8. Expected(info) = Len(send_data(1, info))
  BY <1>4, <1>6, Zenon
<1> QED BY <1>3, <1>5, <1>7, <1>8, Zenon DEF AddsUp

\* For every size that receive_data takes, the chunks and the remainder are all
\* of the frame, no chunk is too big for a datagram, read_header reads what
\* make_header wrote, and the receiver waits for as many datagrams as
\* send_data sends.
THEOREM EveryFrameAddsUp == Spec => []FramesAddUp
<1>1. \A s \in Sizes : s \in Frames
  <2>1. MaxAllocation \in Nat
    BY SMT DEF MaxAllocation
  <2> QED BY StreamsAssumption, <2>1, SMT DEF Frames
<1>2. FramesAddUp
  BY <1>1, EverySizeAddsUp, Zenon DEF FramesAddUp, AddsUp
<1> QED BY <1>2, PTL

-----------------------------------------------------------------------------
(***************************************************************************)
(* Datagrams.  What is on the network are headers made by                  *)
(* make_packet_info, in place 0 of a frame, and chunks in the others.      *)
(***************************************************************************)
Types == {"Audio", "Video", "Done"}
Chars == {"?"} \cup {Letters[t] : t \in DOMAIN Letters}
Infos == [data_type : Chars, nb_packets : Nat, packet_size : Nat, rem_size : Nat]

Headers    == {HeaderOf(f, make_packet_info(type, s)) :
                 f \in Nat, type \in Types, s \in Frames}
DataChunks == {ChunkOf(f, i, b) : f \in Nat, i \in Nat \ {0}, b \in Nat}
OnNet      == Headers \cup DataChunks

Told(h) == read_header(h.header)
Data(h) == send_data(h.frame, Told(h))

LEMMA TypesOfLetters ==
  /\ \A t \in DOMAIN Letters : t \in {"Audio", "Video", "Done", "Text"}
  /\ \A type \in Types : /\ type_to_char(type) \in Chars
                         /\ char_to_type(type_to_char(type)) = type
  /\ char_to_type("?") = "Empty" /\ "?" \in Chars
<1>1. DOMAIN Letters = {"Audio", "Video", "Done", "Text"}
  BY DEF Letters
<1>2. \A type \in Types : type_to_char(type) \in Chars
  BY <1>1 DEF type_to_char, Types, Chars
<1>3. \A type \in Types : char_to_type(type_to_char(type)) = type
  BY <1>1 DEF type_to_char, char_to_type, Types, Letters
<1>4. char_to_type("?") = "Empty"
  BY <1>1 DEF char_to_type, Letters
<1> QED BY <1>1, <1>2, <1>3, <1>4 DEF Chars

LEMMA ChunkFacts ==
  ASSUME NEW c \in DataChunks
  PROVE  /\ c.frame \in Nat /\ c.place \in Nat \ {0} /\ c.size \in Nat
         /\ ~ IsHeader(c) /\ c # Nothing
<1>1. PICK f \in Nat, i \in Nat \ {0}, b \in Nat : c = ChunkOf(f, i, b)
  BY DEF DataChunks
<1>2. DOMAIN c = {"frame", "place", "size"}
  BY <1>1 DEF ChunkOf
<1>3. DOMAIN Nothing = {"data_type", "nb_packets", "packet_size", "rem_size"}
  BY DEF Nothing, Info
<1>4. c # Nothing /\ ~ IsHeader(c)
  BY <1>2, <1>3 DEF IsHeader
<1> QED BY <1>1, <1>4 DEF ChunkOf

\* What make_packet_info makes asks for one datagram at least, and is what is read.
LEMMA InfoFacts ==
  ASSUME NEW type \in Types, NEW s \in Frames
  PROVE  LET info == make_packet_info(type, s)
         IN /\ info \in Infos /\ Expected(info) \in Nat \ {0}
            /\ read_header(make_header(info)) = info
            /\ char_to_type(info.data_type) = type
<1> DEFINE info == make_packet_info(type, s)
<1>1. PICK nb, p, r \in Nat :
        /\ nb >= 1 /\ nb * p + r = s
        /\ info = Info(type_to_char(type), nb, p, r)
  BY PacketInfo
<1>2. read_header(make_header(info)) = info
  BY EverySizeAddsUp, Zenon DEF AddsUp
<1> HIDE DEF info
<1>3. /\ info = [data_type |-> type_to_char(type), nb_packets |-> nb, packet_size |-> p,
                 rem_size |-> r]
      /\ info.nb_packets = nb /\ info.packet_size = p /\ info.rem_size = r
      /\ info.data_type = type_to_char(type)
  BY <1>1 DEF Info
<1>4. info \in Infos /\ char_to_type(info.data_type) = type
  BY <1>3, TypesOfLetters DEF Infos
<1>5. ~ (info.nb_packets * info.packet_size + info.rem_size >= MaxAllocation)
  BY <1>1, <1>3, SMT DEF Frames, MaxAllocation
<1>6. Expected(info) = nb + IF r = 0 THEN 0 ELSE 1
  BY <1>3, <1>5, Zenon DEF Expected
<1>7. Expected(info) \in Nat \ {0}
  BY <1>1, <1>6
<1> QED BY <1>2, <1>4, <1>7 DEF info

LEMMA HeaderFacts ==
  ASSUME NEW h \in Headers
  PROVE  /\ h.frame \in Nat /\ h.place = 0 /\ h.size = m_HEADER_SIZE
         /\ IsHeader(h) /\ h # Nothing
         /\ Told(h) \in Infos /\ Expected(Told(h)) \in Nat \ {0}
         /\ char_to_type(Told(h).data_type) \in Types
<1>1. PICK f \in Nat, type \in Types, s \in Frames : h = HeaderOf(f, make_packet_info(type, s))
  BY DEF Headers
<1> DEFINE info == make_packet_info(type, s)
<1>2. /\ info \in Infos /\ Expected(info) \in Nat \ {0}
      /\ read_header(make_header(info)) = info
      /\ char_to_type(info.data_type) = type
  BY InfoFacts
<1>3. h = HeaderOf(f, info)
  BY <1>1
<1> HIDE DEF info
<1>4. h = [frame |-> f, place |-> 0, size |-> m_HEADER_SIZE, header |-> make_header(info)]
  BY <1>3, Zenon DEF HeaderOf
<1>5. DOMAIN h = {"frame", "place", "size", "header"} /\ h.header = make_header(info)
      /\ h.frame = f /\ h.place = 0 /\ h.size = m_HEADER_SIZE
  BY <1>4
<1>6. DOMAIN Nothing = {"data_type", "nb_packets", "packet_size", "rem_size"}
  BY DEF Nothing, Info
<1>7. Told(h) = info
  BY <1>2, <1>5, Zenon DEF Told
<1>8. IsHeader(h) /\ h # Nothing
  BY <1>5, <1>6 DEF IsHeader
<1> QED BY <1>2, <1>5, <1>7, <1>8

LEMMA DatagramFacts ==
  ASSUME NEW d \in OnNet
  PROVE  /\ d.frame \in Nat /\ d.place \in Nat /\ d.size \in Nat /\ d # Nothing
         /\ IsHeader(d) <=> d.place = 0
         /\ IsHeader(d) => d \in Headers
         /\ ~ IsHeader(d) => d \in DataChunks
<1>1. CASE d \in Headers
  <2>1. /\ d.frame \in Nat /\ d.place = 0 /\ d.size = 25 /\ IsHeader(d) /\ d # Nothing
    BY <1>1, HeaderFacts DEF m_HEADER_SIZE
  <2> QED BY <1>1, <2>1
<1>2. CASE d \in DataChunks
  <2>1. /\ d.frame \in Nat /\ d.place \in Nat \ {0} /\ d.size \in Nat
        /\ ~ IsHeader(d) /\ d # Nothing
    BY <1>2, ChunkFacts
  <2> QED BY <1>2, <2>1
<1> QED BY <1>1, <1>2 DEF OnNet

\* send_data makes as many chunks as receive_data waits for, each with its place.
LEMMA DataElements ==
  ASSUME NEW f \in Nat, NEW info \in Infos, Expected(info) # 0
  PROVE  /\ Expected(info) \in Nat
         /\ send_data(f, info) \in Seq(DataChunks)
         /\ Len(send_data(f, info)) = Expected(info)
         /\ \A i \in 1..Expected(info) : /\ send_data(f, info)[i] \in DataChunks
                                         /\ send_data(f, info)[i].frame = f
                                         /\ send_data(f, info)[i].place = i
<1> DEFINE nb == info.nb_packets
           p == info.packet_size
           r == info.rem_size
           a == [i \in 1..nb |-> ChunkOf(f, i, p)]
           b == IF r = 0 THEN <<>> ELSE <<ChunkOf(f, nb + 1, r)>>
           s == send_data(f, info)
<1>1. nb \in Nat /\ p \in Nat /\ r \in Nat
  BY DEF Infos
<1>2. s = a \o b
  BY Zenon DEF send_data
<1>3. Expected(info) = nb + IF r = 0 THEN 0 ELSE 1
  BY DEF Expected
<1> HIDE DEF nb, p, r, s
<1>4. a \in Seq(DataChunks) /\ Len(a) = nb /\ \A i \in 1..nb : a[i] = ChunkOf(f, i, p)
  <2>1. \A i \in 1..nb : ChunkOf(f, i, p) \in DataChunks
    BY <1>1 DEF DataChunks
  <2> QED BY <1>1, <2>1
<1>5. /\ b \in Seq(DataChunks) /\ Len(b) = IF r = 0 THEN 0 ELSE 1
      /\ r # 0 => b[1] = ChunkOf(f, nb + 1, r)
  <2>1. ChunkOf(f, nb + 1, r) \in DataChunks
    BY <1>1 DEF DataChunks
  <2>2. CASE r = 0
    BY <2>2
  <2>3. CASE r # 0
    <3>1. b = <<ChunkOf(f, nb + 1, r)>>
      BY <2>3
    <3> HIDE DEF b
    <3> QED BY <2>1, <2>3, <3>1
  <2> QED BY <2>2, <2>3
<1> HIDE DEF a, b
<1>6. /\ s \in Seq(DataChunks) /\ Len(s) = Len(a) + Len(b)
      /\ \A i \in 1..(Len(a) + Len(b)) : s[i] = IF i <= Len(a) THEN a[i] ELSE b[i - Len(a)]
  BY <1>2, <1>4, <1>5, ConcatProperties
<1>7. Expected(info) \in Nat /\ Len(s) = Expected(info)
  BY <1>1, <1>3, <1>4, <1>5, <1>6
<1>8. ASSUME NEW i \in 1..Expected(info)
      PROVE  s[i] \in DataChunks /\ s[i].frame = f /\ s[i].place = i
  <2>1. \E q : s[i] = ChunkOf(f, i, q)
    <3>1. CASE i <= nb
      <4>1. i \in 1..nb
        BY <1>1, <1>3, <1>8, <3>1
      <4>2. s[i] = a[i]
        BY <1>1, <1>4, <1>5, <1>6, <4>1
      <4> QED BY <1>4, <4>1, <4>2
    <3>2. CASE i > nb
      <4>1. r # 0 /\ i = nb + 1
        BY <1>1, <1>3, <1>8, <3>2
      <4>2. s[i] = b[1]
        BY <1>1, <1>3, <1>4, <1>5, <1>6, <1>8, <4>1
      <4> QED BY <1>5, <4>1, <4>2
    <3> QED BY <1>1, <1>8, <3>1, <3>2
  <2>2. s[i] \in DataChunks
    BY <1>6, <1>7, <1>8, ElementOfSeq
  <2> QED BY <2>1, <2>2 DEF ChunkOf
<1> QED BY <1>6, <1>7, <1>8 DEF s

-----------------------------------------------------------------------------
(***************************************************************************)
(* The invariant, of one end.  N is what is on its way to the end, r what  *)
(* read_package does, L what has been loaded, n the frames sent, Done      *)
(* among them, k what may be noise, and v the datagrams that overtook.     *)
(***************************************************************************)

\* The datagrams are of frames that were sent, and no two are the same one.
Carries(N, n) ==
  /\ IsFiniteSet(N) /\ N \subseteq OnNet
  /\ \A d \in N : d.frame \in 1..n
  /\ \A c, d \in N : c.frame = d.frame /\ c.place = d.place => c = d

\* What read_package waits for, and what it has taken.
ReadState(r, n) ==
  /\ r \in [at : {"none", "header", "resync", "data"}, info : Infos,
            got : Seq(OnNet \cup {Nothing})]
  /\ Len(r.got) <= Expected(r.info)
  /\ r.at = "data" <=> Len(r.got) < Expected(r.info)
  /\ \A i \in 1..Len(r.got) : r.got[i] # Nothing => r.got[i].frame \in 1..n

\* A header is torn if a chunk of its frame is missing.  What is read is fine
\* if it is the beginning of a frame and the rest comes next; otherwise it is
\* doomed to be noise, unless a chunk was waited for in vain.
Torn(N) == {h \in N : IsHeader(h) /\ \E i \in 1..Expected(Told(h)) : Data(h)[i] \notin N}

FineFor(N, r, f) ==
  /\ \A i \in 1..Len(r.got) : r.got[i] = send_data(f, r.info)[i]
  /\ \A i \in (Len(r.got) + 1)..Expected(r.info) : send_data(f, r.info)[i] \in N
  /\ \A d \in N : d.frame > f \/ (d.frame = f /\ d.place > Len(r.got))

Fine(N, r) == \E f \in Nat : FineFor(N, r, f)

Doomed(N, r) ==
  /\ r.at = "data" /\ ~ Fine(N, r)
  /\ \A i \in 1..Len(r.got) : r.got[i] # Nothing

\* The noise that is still to come of what is on the network and being read.
Owed(N, r) == Cardinality(Torn(N)) + IF Doomed(N, r) THEN 1 ELSE 0

Noises(L) == {i \in DOMAIN L : L[i] = Corrupt}

\* A datagram is not taken twice, and of a frame that was loaded no first chunk
\* is left.
Fresh(N, got, L) ==
  /\ \A i \in 1..Len(got) : got[i] # Nothing =>
       \A d \in N : ~ (d.frame = got[i].frame /\ d.place = got[i].place)
  /\ \A j \in 1..Len(L) : L[j] # Corrupt =>
       /\ \A d \in N : d.place = 1 => d.frame # L[j]
       /\ \A i \in 1..Len(got) :
            got[i] # Nothing /\ got[i].place = 1 => got[i].frame # L[j]

\* If none overtakes, what was taken comes before what is on the network, and
\* what was loaded before both.
Ordered(N, got, L) ==
  /\ \A i \in 1..Len(got) : got[i] # Nothing => \A d \in N : Before(got[i], d)
  /\ \A j \in 1..Len(L) : L[j] # Corrupt =>
       /\ \A d \in N : d.place = 1 => L[j] < d.frame
       /\ \A i \in 1..Len(got) :
            got[i] # Nothing /\ got[i].place = 1 => L[j] < got[i].frame

\* Each frame was loaded once, and in the order of sending if none overtakes.
Once(L)    == \A i, j \in 1..Len(L) : L[i] # Corrupt /\ L[i] = L[j] => i = j
InOrder(L) == \A i, j \in 1..Len(L) : L[i] # Corrupt /\ L[j] # Corrupt /\ i < j => L[i] < L[j]

EndInv(N, r, L, n, k, v) ==
  /\ n \in Nat /\ k \in Nat /\ v \in Nat
  /\ Carries(N, n) /\ ReadState(r, n)
  /\ L \in Seq(0..n)
  /\ Cardinality(Noises(L)) + Owed(N, r) <= k
  /\ Once(L) /\ Fresh(N, r.got, L)
  /\ v = 0 => InOrder(L) /\ Ordered(N, r.got, L)

-----------------------------------------------------------------------------
(***************************************************************************)
(* Sets and counts.                                                        *)
(***************************************************************************)
LEMMA OneMoreCounts ==
  ASSUME NEW S, IsFiniteSet(S), NEW x
  PROVE  /\ IsFiniteSet(S \cup {x})
         /\ Cardinality(S) \in Nat /\ Cardinality(S \cup {x}) \in Nat
         /\ Cardinality(S \cup {x}) <= Cardinality(S) + 1
<1>1. /\ IsFiniteSet(S \cup {x})
      /\ Cardinality(S \cup {x}) = IF x \in S THEN Cardinality(S) ELSE Cardinality(S)+1
  BY FS_AddElement
<1>2. Cardinality(S) \in Nat /\ Cardinality(S \cup {x}) \in Nat
  BY <1>1, FS_CardinalityType
<1> QED BY <1>1, <1>2

LEMMA OneLessCounts ==
  ASSUME NEW S, IsFiniteSet(S), NEW x \in S
  PROVE  /\ IsFiniteSet(S \ {x})
         /\ Cardinality(S) \in Nat /\ Cardinality(S \ {x}) \in Nat
         /\ Cardinality(S \ {x}) = Cardinality(S) - 1
<1>1. /\ IsFiniteSet(S \ {x})
      /\ Cardinality(S \ {x}) = IF x \in S THEN Cardinality(S)-1 ELSE Cardinality(S)
  BY FS_RemoveElement
<1>2. Cardinality(S) \in Nat /\ Cardinality(S \ {x}) \in Nat
  BY <1>1, FS_CardinalityType
<1> QED BY <1>1, <1>2

LEMMA SubsetCounts ==
  ASSUME NEW S, IsFiniteSet(S), NEW T, T \subseteq S
  PROVE  /\ IsFiniteSet(T) /\ Cardinality(T) \in Nat /\ Cardinality(S) \in Nat
         /\ Cardinality(T) <= Cardinality(S)
<1>1. IsFiniteSet(T) /\ Cardinality(T) <= Cardinality(S)
  BY FS_Subset
<1> QED BY <1>1, FS_CardinalityType

LEMMA NoisesFinite ==
  ASSUME NEW n, NEW L \in Seq(0..n)
  PROVE  /\ Len(L) \in Nat /\ DOMAIN L = 1..Len(L)
         /\ \A i \in 1..Len(L) : L[i] \in 0..n
         /\ IsFiniteSet(Noises(L)) /\ Cardinality(Noises(L)) \in Nat
<1>1. Len(L) \in Nat /\ DOMAIN L = 1..Len(L)
  BY LenProperties
<1>2. IsFiniteSet(1..Len(L))
  BY <1>1, FS_Interval
<1>3. Noises(L) \subseteq 1..Len(L)
  BY <1>1 DEF Noises
<1>4. \A i \in 1..Len(L) : L[i] \in 0..n
  BY ElementOfSeq
<1> QED BY <1>1, <1>2, <1>3, <1>4, SubsetCounts

\* One more frame is loaded.
LEMMA OneMoreLoaded ==
  ASSUME NEW n \in Nat, NEW L \in Seq(0..n), NEW x \in 0..n
  PROVE  LET M == Append(L, x)
         IN /\ M \in Seq(0..n) /\ Len(M) = Len(L) + 1 /\ Len(L) \in Nat
            /\ M[Len(L) + 1] = x /\ \A i \in 1..Len(L) : M[i] = L[i] /\ L[i] \in 0..n
            /\ Cardinality(Noises(M)) \in Nat /\ Cardinality(Noises(L)) \in Nat
            /\ Cardinality(Noises(M)) <= Cardinality(Noises(L)) + 1
            /\ x # Corrupt => Cardinality(Noises(M)) <= Cardinality(Noises(L))
<1> DEFINE M == Append(L, x)
<1>1. /\ M \in Seq(0..n) /\ Len(M) = Len(L) + 1 /\ Len(L) \in Nat
      /\ M[Len(L) + 1] = x /\ \A i \in 1..Len(L) : M[i] = L[i]
  BY AppendProperties, LenProperties
<1>2. /\ DOMAIN L = 1..Len(L) /\ \A i \in 1..Len(L) : L[i] \in 0..n
      /\ IsFiniteSet(Noises(L)) /\ Cardinality(Noises(L)) \in Nat
  BY NoisesFinite
<1> HIDE DEF M
<1>3. DOMAIN M = 1..Len(M) /\ Cardinality(Noises(M)) \in Nat
  BY <1>1, NoisesFinite
<1>4. Noises(M) \subseteq Noises(L) \cup {Len(L) + 1}
  BY <1>1, <1>2, <1>3 DEF Noises
<1>5. x # Corrupt => Noises(M) \subseteq Noises(L)
  BY <1>1, <1>2, <1>3 DEF Noises
<1>6. Cardinality(Noises(M)) <= Cardinality(Noises(L)) + 1
  <2>1. /\ IsFiniteSet(Noises(L) \cup {Len(L) + 1})
        /\ Cardinality(Noises(L) \cup {Len(L) + 1}) \in Nat
        /\ Cardinality(Noises(L) \cup {Len(L) + 1}) <= Cardinality(Noises(L)) + 1
    BY <1>2, OneMoreCounts
  <2>2. Cardinality(Noises(M)) <= Cardinality(Noises(L) \cup {Len(L) + 1})
    BY <1>4, <2>1, SubsetCounts
  <2> QED BY <1>2, <1>3, <2>1, <2>2
<1>7. x # Corrupt => Cardinality(Noises(M)) <= Cardinality(Noises(L))
  BY <1>2, <1>5, SubsetCounts
<1> QED BY <1>1, <1>2, <1>3, <1>6, <1>7 DEF M

-----------------------------------------------------------------------------
(***************************************************************************)
(* What is on the network after a datagram is taken or frames are sent.    *)
(***************************************************************************)
IsEarly(N, d) == \E c \in N : Before(c, d)

LEMMA WireFacts ==
  ASSUME NEW n, NEW N, Carries(N, n), NEW d \in N
  PROVE  /\ d \in OnNet /\ d.frame \in Nat /\ d.place \in Nat /\ d.size \in Nat
         /\ d # Nothing /\ (IsHeader(d) <=> d.place = 0)
         /\ IsHeader(d) => d \in Headers
         /\ ~ IsHeader(d) => d \in DataChunks
<1>1. d \in OnNet
  BY DEF Carries
<1> QED BY <1>1, DatagramFacts

LEMMA HeaderData ==
  ASSUME NEW h \in Headers, NEW i \in 1..Expected(Told(h))
  PROVE  Data(h)[i] \in DataChunks /\ Data(h)[i].frame = h.frame /\ Data(h)[i].place = i
<1>1. h.frame \in Nat /\ Told(h) \in Infos /\ Expected(Told(h)) # 0
  BY HeaderFacts
<1> QED BY <1>1, DataElements DEF Data

LEMMA TornFinite ==
  ASSUME NEW n, NEW N, Carries(N, n)
  PROVE  IsFiniteSet(Torn(N)) /\ Cardinality(Torn(N)) \in Nat
<1>1. IsFiniteSet(N) /\ Torn(N) \subseteq N
  BY DEF Carries, Torn
<1> QED BY <1>1, SubsetCounts

LEMMA CarriesLess ==
  ASSUME NEW n, NEW N, Carries(N, n), NEW d
  PROVE  Carries(N \ {d}, n)
<1>1. IsFiniteSet(N \ {d})
  BY FS_RemoveElement DEF Carries
<1> QED BY <1>1 DEF Carries

\* A datagram that is taken in its turn tears no header, and one that overtakes
\* tears the header of its frame at most.
LEMMA TornTaken ==
  ASSUME NEW n, NEW N, Carries(N, n), NEW d \in N
  PROVE  /\ Cardinality(Torn(N \ {d})) <= Cardinality(Torn(N)) + 1
         /\ ~ IsEarly(N, d) => Cardinality(Torn(N \ {d})) <= Cardinality(Torn(N))
         /\ ~ IsEarly(N, d) /\ d \in Torn(N) =>
              Cardinality(Torn(N \ {d})) <= Cardinality(Torn(N)) - 1
<1> DEFINE T == Torn(N)
           T2 == Torn(N \ {d})
<1>1. IsFiniteSet(T) /\ Cardinality(T) \in Nat
  BY TornFinite
<1>2. IsFiniteSet(T2) /\ Cardinality(T2) \in Nat
  BY CarriesLess, TornFinite
<1>3. ASSUME NEW h \in T2 PROVE h \in N \ {d} /\ IsHeader(h) /\ h \in Headers /\ h.place = 0
  <2>1. h \in N \ {d} /\ IsHeader(h)
    BY <1>3 DEF Torn
  <2> QED BY <2>1, WireFacts
<1>4. ASSUME NEW h \in T2, h \notin T PROVE d.frame = h.frame /\ d.place \in Nat \ {0}
  <2>1. h \in N /\ IsHeader(h) /\ h \in Headers
    BY <1>3, <1>4
  <2>2. PICK i \in 1..Expected(Told(h)) : Data(h)[i] \notin N \ {d}
    BY <1>4 DEF Torn
  <2>3. Data(h)[i] \in N
    BY <1>4, <2>1, <2>2 DEF Torn
  <2>4. d = Data(h)[i]
    BY <2>2, <2>3
  <2>5. Expected(Told(h)) \in Nat
    BY <2>1, HeaderFacts
  <2> QED BY <2>1, <2>4, <2>5, HeaderData
<1>5. CASE ~ IsEarly(N, d)
  <2>1. T2 \subseteq T \ {d}
    <3> SUFFICES ASSUME NEW h \in T2 PROVE h \in T \ {d}
      OBVIOUS
    <3>1. h \in N \ {d} /\ h.place = 0
      BY <1>3
    <3>2. CASE h \notin T
      <4>1. d.frame = h.frame /\ d.place \in Nat \ {0}
        BY <1>4, <3>2
      <4>2. h.frame \in Nat
        BY <3>1, WireFacts
      <4>3. Before(h, d)
        BY <3>1, <4>1, <4>2 DEF Before
      <4> QED BY <1>5, <3>1, <4>3 DEF IsEarly
    <3> QED BY <3>1, <3>2
  <2> HIDE DEF T, T2
  <2>2. Cardinality(T2) <= Cardinality(T)
    BY <1>1, <2>1, SubsetCounts
  <2>3. d \in T => Cardinality(T2) <= Cardinality(T) - 1
    <3> SUFFICES ASSUME d \in T PROVE Cardinality(T2) <= Cardinality(T) - 1
      OBVIOUS
    <3>1. IsFiniteSet(T \ {d}) /\ Cardinality(T \ {d}) = Cardinality(T) - 1
      BY <1>1, OneLessCounts
    <3>2. Cardinality(T2) <= Cardinality(T \ {d})
      BY <2>1, <3>1, SubsetCounts
    <3> QED BY <3>1, <3>2
  <2>4. Cardinality(T2) <= Cardinality(T) + 1
    BY <1>1, <1>2, <2>2
  <2> QED BY <1>5, <2>2, <2>3, <2>4 DEF T, T2
<1>6. CASE IsEarly(N, d)
  <2>1. CASE T2 \subseteq T
    <3> HIDE DEF T, T2
    <3>1. Cardinality(T2) <= Cardinality(T)
      BY <1>1, <2>1, SubsetCounts
    <3>2. Cardinality(T2) <= Cardinality(T) + 1
      BY <1>1, <1>2, <3>1
    <3> QED BY <1>6, <3>2 DEF T, T2
  <2>2. CASE ~ (T2 \subseteq T)
    <3>1. PICK x \in T2 : x \notin T
      BY <2>2
    <3>2. ASSUME NEW h \in T2, h \notin T PROVE h = x
      <4>1. h.frame = x.frame /\ h.place = x.place /\ h \in N /\ x \in N
        BY <1>3, <1>4, <3>1, <3>2
      <4> QED BY <4>1 DEF Carries
    <3>3. T2 \subseteq T \cup {x}
      BY <3>2
    <3> HIDE DEF T, T2
    <3>4. /\ IsFiniteSet(T \cup {x}) /\ Cardinality(T \cup {x}) \in Nat
          /\ Cardinality(T \cup {x}) <= Cardinality(T) + 1
      BY <1>1, OneMoreCounts
    <3>5. Cardinality(T2) <= Cardinality(T \cup {x})
      BY <3>3, <3>4, SubsetCounts
    <3>6. Cardinality(T2) <= Cardinality(T) + 1
      BY <1>1, <1>2, <3>4, <3>5
    <3> QED BY <1>6, <3>6 DEF T, T2
  <2> QED BY <2>1, <2>2
<1> QED BY <1>5, <1>6

\* What is sent for a frame, or all of it but one chunk.
SentFor(D, n, type, s) ==
  \/ D = respond(type, n, s)
  \/ \E c \in respond(type, n, s) : ~ IsHeader(c) /\ D = respond(type, n, s) \ {c}

LEMMA RespondFacts ==
  ASSUME NEW n \in Nat, NEW type \in Types, NEW s \in Frames
  PROVE  LET D == respond(type, n, s)
             h == HeaderOf(n, make_packet_info(type, s))
         IN /\ IsFiniteSet(D) /\ D \subseteq OnNet
            /\ \A d \in D : d.frame = n
            /\ \A c, d \in D : c.place = d.place => c = d
            /\ \A d \in D : IsHeader(d) => d = h
            /\ IsHeader(h) /\ \A i \in 1..Expected(Told(h)) : Data(h)[i] \in D
<1> DEFINE info == make_packet_info(type, s)
           D == respond(type, n, s)
           h == HeaderOf(n, info)
           chunks == send_data(n, info)
           C == {chunks[i] : i \in DOMAIN chunks}
<1>1. D = {h} \cup C
  BY Zenon DEF respond, Chunks
<1>2. /\ info \in Infos /\ Expected(info) \in Nat \ {0}
      /\ read_header(make_header(info)) = info
  BY InfoFacts
<1>3. h \in Headers
  BY DEF Headers
<1> HIDE DEF info
<1>4. h.frame = n /\ h.header = make_header(info)
  BY DEF HeaderOf
<1> HIDE DEF h
<1>5. h.place = 0 /\ IsHeader(h) /\ h \in OnNet
  BY <1>3, HeaderFacts DEF OnNet
<1>6. Told(h) = info /\ Data(h) = chunks
  BY <1>2, <1>4, Zenon DEF Told, Data
<1>7. /\ chunks \in Seq(DataChunks) /\ Len(chunks) = Expected(info)
      /\ \A i \in 1..Expected(info) : /\ chunks[i] \in DataChunks
                                      /\ chunks[i].frame = n /\ chunks[i].place = i
  BY <1>2, DataElements
<1> HIDE DEF chunks
<1>8. DOMAIN chunks = 1..Expected(info)
  BY <1>7, LenProperties
<1>9. IsFiniteSet(C)
  <2>1. chunks \in [1..Expected(info) -> C]
    BY <1>7, <1>8, SeqDef
  <2>2. chunks \in Surjection(1..Expected(info), C)
    BY <1>8, <2>1 DEF Surjection
  <2>3. IsFiniteSet(1..Expected(info))
    BY <1>2, FS_Interval
  <2> HIDE DEF C
  <2> QED BY <2>2, <2>3, FS_Surjection
<1>10. \A d \in C : \E i \in 1..Expected(info) : d = chunks[i]
  BY <1>8
<1>11. \A i \in 1..Expected(info) : chunks[i] \in C
  BY <1>8
<1> HIDE DEF C
<1>12. \A d \in C : d \in DataChunks /\ d.frame = n /\ d.place \in Nat \ {0} /\ ~ IsHeader(d)
  BY <1>2, <1>7, <1>10, ChunkFacts
<1>13. \A c, d \in C : c.place = d.place => c = d
  BY <1>7, <1>10
<1>14. IsFiniteSet(D)
  BY <1>1, <1>9, FS_AddElement
<1>15. D \subseteq OnNet /\ \A d \in D : d.frame = n
  BY <1>1, <1>4, <1>5, <1>12 DEF OnNet
<1>16. \A c, d \in D : c.place = d.place => c = d
  BY <1>1, <1>5, <1>12, <1>13
<1>17. \A d \in D : IsHeader(d) => d = h
  BY <1>1, <1>12
<1>18. \A i \in 1..Expected(Told(h)) : Data(h)[i] \in D
  BY <1>1, <1>6, <1>11
<1> QED BY <1>5, <1>14, <1>15, <1>16, <1>17, <1>18 DEF D, h, info

LEMMA SentFacts ==
  ASSUME NEW n \in Nat, NEW N, Carries(N, n), NEW type \in Types, NEW s \in Frames,
         NEW D, SentFor(D, n + 1, type, s)
  PROVE  /\ Carries(N \cup D, n + 1)
         /\ \A d \in D : d.frame = n + 1
         /\ Cardinality(Torn(N \cup D)) <= Cardinality(Torn(N)) + 1
         /\ D = respond(type, n + 1, s) =>
              Cardinality(Torn(N \cup D)) <= Cardinality(Torn(N))
<1> DEFINE R == respond(type, n + 1, s)
           h == HeaderOf(n + 1, make_packet_info(type, s))
<1>1. n + 1 \in Nat
  OBVIOUS
<1>2. /\ IsFiniteSet(R) /\ R \subseteq OnNet
      /\ \A d \in R : d.frame = n + 1
      /\ \A c, d \in R : c.place = d.place => c = d
      /\ \A d \in R : IsHeader(d) => d = h
      /\ IsHeader(h) /\ \A i \in 1..Expected(Told(h)) : Data(h)[i] \in R
  BY <1>1, RespondFacts
<1>3. D \subseteq R
  BY DEF SentFor
<1> HIDE DEF R, h
<1>4. IsFiniteSet(N \cup D)
  <2>1. IsFiniteSet(D) /\ IsFiniteSet(N)
    BY <1>2, <1>3, SubsetCounts DEF Carries
  <2> QED BY <2>1, FS_Union
<1>5. \A d \in N : d.frame \in 1..n
  BY DEF Carries
<1>6. \A d \in D : d.frame = n + 1
  BY <1>2, <1>3
<1>7. \A c, d \in N \cup D : c.frame = d.frame /\ c.place = d.place => c = d
  <2> SUFFICES ASSUME NEW c \in N \cup D, NEW d \in N \cup D,
                      c.frame = d.frame, c.place = d.place
               PROVE  c = d
    OBVIOUS
  <2>1. CASE c \in N /\ d \in N
    BY <2>1 DEF Carries
  <2>2. CASE c \in D /\ d \in D
    BY <1>2, <1>3, <2>2
  <2>3. ~ (c \in N /\ d \in D) /\ ~ (c \in D /\ d \in N)
    BY <1>5, <1>6
  <2> QED BY <2>1, <2>2, <2>3
<1>8. Carries(N \cup D, n + 1)
  <2>1. N \cup D \subseteq OnNet
    BY <1>2, <1>3 DEF Carries
  <2>2. \A d \in N \cup D : d.frame \in 1..(n + 1)
    BY <1>5, <1>6
  <2> QED BY <1>4, <1>7, <2>1, <2>2 DEF Carries
<1>9. IsFiniteSet(Torn(N)) /\ Cardinality(Torn(N)) \in Nat
  BY TornFinite
<1>10. IsFiniteSet(Torn(N \cup D)) /\ Cardinality(Torn(N \cup D)) \in Nat
  BY <1>8, TornFinite
<1>11. Torn(N \cup D) \subseteq Torn(N) \cup {h}
  BY <1>2, <1>3 DEF Torn
<1>12. Cardinality(Torn(N \cup D)) <= Cardinality(Torn(N)) + 1
  <2>1. /\ IsFiniteSet(Torn(N) \cup {h}) /\ Cardinality(Torn(N) \cup {h}) \in Nat
        /\ Cardinality(Torn(N) \cup {h}) <= Cardinality(Torn(N)) + 1
    BY <1>9, OneMoreCounts
  <2>2. Cardinality(Torn(N \cup D)) <= Cardinality(Torn(N) \cup {h})
    BY <1>11, <2>1, SubsetCounts
  <2> QED BY <1>9, <1>10, <2>1, <2>2
<1>13. ASSUME D = R PROVE Cardinality(Torn(N \cup D)) <= Cardinality(Torn(N))
  <2>1. h \notin Torn(N \cup D)
    BY <1>2, <1>13 DEF Torn
  <2>2. Torn(N \cup D) \subseteq Torn(N)
    BY <1>11, <2>1
  <2> QED BY <1>9, <2>2, SubsetCounts
<1> QED BY <1>6, <1>8, <1>12, <1>13 DEF R

-----------------------------------------------------------------------------
(***************************************************************************)
(* What is read: fine as long as the rest comes in order.                  *)
(***************************************************************************)
LEMMA ReadFacts ==
  ASSUME NEW n, NEW r, ReadState(r, n)
  PROVE  /\ Len(r.got) \in Nat /\ r.info \in Infos /\ Expected(r.info) \in Nat
         /\ r.got \in Seq(OnNet \cup {Nothing}) /\ DOMAIN r.got = 1..Len(r.got)
         /\ \A i \in 1..Len(r.got) :
              /\ r.got[i] \in OnNet \cup {Nothing}
              /\ r.got[i] # Nothing =>
                   r.got[i].frame \in 1..n /\ r.got[i].frame \in Nat /\ r.got[i].place \in Nat
<1>1. r.info \in Infos /\ r.got \in Seq(OnNet \cup {Nothing})
  BY DEF ReadState
<1>2. Len(r.got) \in Nat /\ DOMAIN r.got = 1..Len(r.got)
  BY <1>1, LenProperties
<1>3. \A i \in 1..Len(r.got) : r.got[i] \in OnNet \cup {Nothing}
  BY <1>1, ElementOfSeq
<1>4. Expected(r.info) \in Nat
  BY <1>1 DEF Infos, Expected
<1>5. ASSUME NEW i \in 1..Len(r.got), r.got[i] # Nothing
      PROVE  r.got[i].frame \in 1..n /\ r.got[i].frame \in Nat /\ r.got[i].place \in Nat
  <2>1. r.got[i] \in OnNet
    BY <1>3, <1>5
  <2>2. r.got[i].frame \in Nat /\ r.got[i].place \in Nat
    BY <2>1, DatagramFacts
  <2> QED BY <1>5, <2>2 DEF ReadState
<1> QED BY <1>1, <1>2, <1>3, <1>4, <1>5

\* Between packages.
LEMMA Waits ==
  ASSUME NEW at \in {"none", "header", "resync"}
  PROVE  /\ Reading(at).at = at /\ Reading(at).got = <<>> /\ Len(Reading(at).got) = 0
         /\ \A n : ReadState(Reading(at), n)
         /\ \A N : ~ Doomed(N, Reading(at))
<1>1. Reading(at) = [at |-> at, info |-> Nothing, got |-> <<>>]
  BY DEF Reading, NotReading
<1>2. Nothing \in Infos /\ Expected(Nothing) = 0
  <2>1. Nothing = [data_type |-> "?", nb_packets |-> 0, packet_size |-> 0, rem_size |-> 0]
    BY DEF Nothing, Info
  <2>2. Nothing \in Infos
    BY <2>1, TypesOfLetters DEF Infos
  <2> QED BY <2>1, <2>2 DEF Expected, MaxAllocation
<1>3. <<>> \in Seq(OnNet \cup {Nothing}) /\ Len(<<>>) = 0
  OBVIOUS
<1> QED BY <1>1, <1>2, <1>3 DEF ReadState, Doomed

\* The header of a frame with all its chunks is taken in its turn.
LEMMA FineHeader ==
  ASSUME NEW n, NEW N, Carries(N, n), NEW d \in N, IsHeader(d), ~ IsEarly(N, d),
         d \notin Torn(N), NEW r, r.info = Told(d), r.got = <<>>
  PROVE  Fine(N \ {d}, r)
<1>1. d \in Headers /\ d.place = 0 /\ d.frame \in Nat
  BY WireFacts
<1>2. Len(r.got) = 0
  OBVIOUS
<1>3. \A i \in 1..Expected(Told(d)) : Data(d)[i] \in N
  BY DEF Torn
<1>4. \A i \in 1..Expected(Told(d)) : Data(d)[i] \in N \ {d}
  <2> SUFFICES ASSUME NEW i \in 1..Expected(Told(d)) PROVE Data(d)[i] # d
    BY <1>3
  <2>1. Data(d)[i] \in DataChunks
    BY <1>1, HeaderData
  <2> QED BY <2>1, ChunkFacts
<1>5. ASSUME NEW c \in N \ {d}
      PROVE  c.frame > d.frame \/ (c.frame = d.frame /\ c.place > 0)
  <2>1. ~ Before(c, d)
    BY <1>5 DEF IsEarly
  <2>2. ~ (c.frame = d.frame /\ c.place = d.place)
    BY <1>5 DEF Carries
  <2>3. c.frame \in Nat /\ c.place \in Nat
    BY WireFacts
  <2> QED BY <1>1, <2>1, <2>2, <2>3 DEF Before
<1>6. FineFor(N \ {d}, r, d.frame)
  <2>1. \A i \in 1..Len(r.got) : FALSE
    BY <1>2
  <2>2. \A i \in (Len(r.got) + 1)..Expected(r.info) :
          send_data(d.frame, r.info)[i] \in N \ {d}
    <3>1. Len(r.got) + 1 = 1
      BY <1>2
    <3> QED BY <1>4, <3>1, Zenon DEF Data
  <2>3. \A c \in N \ {d} : c.frame > d.frame \/ (c.frame = d.frame /\ c.place > Len(r.got))
    BY <1>2, <1>5
  <2> QED BY <2>1, <2>2, <2>3, Zenon DEF FineFor
<1> QED BY <1>1, <1>6 DEF Fine

\* A datagram taken in its turn is the next chunk of what is fine.
LEMMA FineNext ==
  ASSUME NEW n, NEW N, Carries(N, n), NEW d \in N, ~ IsEarly(N, d),
         NEW r, ReadState(r, n), r.at = "data", NEW f \in Nat, FineFor(N, r, f)
  PROVE  /\ d = send_data(f, r.info)[Len(r.got) + 1] /\ f \in 1..n
         /\ \A c \in N \ {d} : c.frame > f \/ (c.frame = f /\ c.place > Len(r.got) + 1)
<1> DEFINE m == Len(r.got)
           x == send_data(f, r.info)[m + 1]
<1>1. /\ m \in Nat /\ Expected(r.info) \in Nat /\ m + 1 \in 1..Expected(r.info)
      /\ r.info \in Infos
  <2>1. m \in Nat /\ Expected(r.info) \in Nat /\ r.info \in Infos
    BY ReadFacts
  <2>2. m < Expected(r.info)
    BY DEF ReadState
  <2> HIDE DEF m
  <2> QED BY <2>1, <2>2
<1>2. x \in DataChunks /\ x.frame = f /\ x.place = m + 1
  <2> HIDE DEF m
  <2>1. Expected(r.info) # 0
    BY <1>1
  <2>2. \A i \in 1..Expected(r.info) :
         LET c == send_data(f, r.info)[i]
         IN c \in DataChunks /\ c.frame = f /\ c.place = i
    BY <1>1, <2>1, DataElements
  <2> QED BY <1>1, <2>2
<1>3. x \in N
  BY <1>1 DEF FineFor
<1>4. d.frame \in Nat /\ d.place \in Nat
  BY WireFacts
<1>5. ~ Before(x, d)
  BY <1>3 DEF IsEarly
<1>6. d.frame > f \/ (d.frame = f /\ d.place > m)
  BY DEF FineFor
<1> HIDE DEF m, x
<1>7. d.frame = x.frame /\ d.place = x.place
  BY <1>1, <1>2, <1>4, <1>5, <1>6 DEF Before
<1>8. d = x
  BY <1>3, <1>7 DEF Carries
<1>9. f \in 1..n
  BY <1>2, <1>3 DEF Carries
<1>10. ASSUME NEW c \in N \ {d}
       PROVE  c.frame > f \/ (c.frame = f /\ c.place > m + 1)
  <2>1. c.frame > f \/ (c.frame = f /\ c.place > m)
    BY <1>10 DEF FineFor, m
  <2>2. ~ (c.frame = d.frame /\ c.place = d.place)
    BY <1>10 DEF Carries
  <2>3. c.frame \in Nat /\ c.place \in Nat
    BY WireFacts
  <2> QED BY <1>1, <1>2, <1>7, <2>1, <2>2, <2>3
<1> QED BY <1>8, <1>9, <1>10 DEF m, x

\* What is sent afterwards does not matter.
LEMMA FineStays ==
  ASSUME NEW n \in Nat, NEW N, Carries(N, n), NEW D, \A d \in D : d.frame = n + 1,
         NEW r, ReadState(r, n), r.at = "data", Fine(N, r)
  PROVE  Fine(N \cup D, r)
<1>1. PICK f \in Nat : FineFor(N, r, f)
  BY DEF Fine
<1> DEFINE m == Len(r.got)
           x == send_data(f, r.info)[m + 1]
<1>2. /\ m \in Nat /\ Expected(r.info) \in Nat /\ m + 1 \in 1..Expected(r.info)
      /\ r.info \in Infos
  <2>1. m \in Nat /\ Expected(r.info) \in Nat /\ r.info \in Infos
    BY ReadFacts
  <2>2. m < Expected(r.info)
    BY DEF ReadState
  <2> HIDE DEF m
  <2> QED BY <2>1, <2>2
<1>3. f <= n
  <2>1. x \in N
    BY <1>1, <1>2 DEF FineFor
  <2>2. x \in DataChunks /\ x.frame = f /\ x.place = m + 1
    <3> HIDE DEF m
    <3>1. Expected(r.info) # 0
      BY <1>2
    <3>2. \A i \in 1..Expected(r.info) :
           LET c == send_data(f, r.info)[i]
           IN c \in DataChunks /\ c.frame = f /\ c.place = i
      BY <1>2, <3>1, DataElements
    <3> QED BY <1>2, <3>2
  <2> HIDE DEF x
  <2>3. x.frame \in 1..n
    BY <2>1 DEF Carries
  <2> QED BY <2>2, <2>3
<1>4. \A d \in D : d.frame > f
  BY <1>3
<1>5. FineFor(N \cup D, r, f)
  BY <1>1, <1>4 DEF FineFor
<1> QED BY <1>5 DEF Fine

-----------------------------------------------------------------------------
(***************************************************************************)
(* What is loaded, what was taken and what is on the network.              *)
(***************************************************************************)

\* With less on the network, and nothing taken or the same.
LEMMA FreshLess ==
  ASSUME NEW N, NEW N2, N2 \subseteq N, NEW got, NEW got2 \in {got, <<>>}, NEW L
  PROVE  /\ Fresh(N, got, L) => Fresh(N2, got2, L)
         /\ Ordered(N, got, L) => Ordered(N2, got2, L)
<1>1. CASE got2 = got
  BY <1>1 DEF Fresh, Ordered
<1>2. CASE got2 = <<>>
  <2>1. Len(got2) = 0 /\ \A i : i \in 1..0 => FALSE
    BY <1>2
  <2>2. \A i : i \notin 1..Len(got2)
    BY <2>1
  <2>3. Fresh(N, got, L) => Fresh(N2, got2, L)
    BY <2>2 DEF Fresh
  <2>4. Ordered(N, got, L) => Ordered(N2, got2, L)
    BY <2>2 DEF Ordered
  <2> QED BY <2>3, <2>4
<1> QED BY <1>1, <1>2

\* With more on the network, of a frame after all that were sent.
LEMMA FreshMore ==
  ASSUME NEW n \in Nat, NEW N, NEW D, D \subseteq OnNet, \A d \in D : d.frame = n + 1,
         NEW r, ReadState(r, n), NEW L \in Seq(0..n)
  PROVE  /\ Fresh(N, r.got, L) => Fresh(N \cup D, r.got, L)
         /\ Ordered(N, r.got, L) => Ordered(N \cup D, r.got, L)
<1>1. \A j \in 1..Len(L) : L[j] \in 0..n
  BY NoisesFinite
<1>2. \A i \in 1..Len(r.got) : r.got[i] # Nothing => r.got[i].frame \in 1..n
  BY DEF ReadState
<1>3. \A d \in D : /\ \A j \in 1..Len(L) : L[j] < d.frame /\ d.frame # L[j]
                   /\ \A i \in 1..Len(r.got) : r.got[i] # Nothing =>
                        r.got[i].frame < d.frame /\ d.frame # r.got[i].frame
  BY <1>1, <1>2
<1>4. Fresh(N, r.got, L) => Fresh(N \cup D, r.got, L)
  BY <1>3 DEF Fresh
<1>5. Ordered(N, r.got, L) => Ordered(N \cup D, r.got, L)
  BY <1>3 DEF Ordered, Before
<1> QED BY <1>4, <1>5

\* A datagram goes from the network to what was taken.
LEMMA FreshTaken ==
  ASSUME NEW n, NEW N, Carries(N, n), NEW d \in N,
         NEW got \in Seq(OnNet \cup {Nothing}), NEW L
  PROVE  /\ Fresh(N, got, L) => Fresh(N \ {d}, Append(got, d), L)
         /\ Ordered(N, got, L) /\ ~ IsEarly(N, d) => Ordered(N \ {d}, Append(got, d), L)
<1> DEFINE G == Append(got, d)
<1>1. d \in OnNet /\ Len(got) \in Nat
  BY WireFacts, LenProperties
<1>2. /\ Len(G) = Len(got) + 1 /\ G[Len(got) + 1] = d
      /\ \A i \in 1..Len(got) : G[i] = got[i]
  BY <1>1, AppendProperties
<1> HIDE DEF G
<1>3. \A i \in 1..Len(G) : i \in 1..Len(got) \/ i = Len(got) + 1
  BY <1>1, <1>2
<1>4. \A c \in N \ {d} : ~ (c.frame = d.frame /\ c.place = d.place)
  BY DEF Carries
<1>5. ASSUME ~ IsEarly(N, d), NEW c \in N \ {d} PROVE Before(d, c)
  <2>1. ~ Before(c, d)
    BY <1>5 DEF IsEarly
  <2>2. c.frame \in Nat /\ c.place \in Nat /\ d.frame \in Nat /\ d.place \in Nat
    BY <1>5, WireFacts
  <2> QED BY <1>4, <1>5, <2>1, <2>2 DEF Before
<1>6. ASSUME Fresh(N, got, L) PROVE Fresh(N \ {d}, G, L)
  <2>1. ASSUME NEW i \in 1..Len(G), G[i] # Nothing, NEW c \in N \ {d}
        PROVE  ~ (c.frame = G[i].frame /\ c.place = G[i].place)
    BY <1>2, <1>3, <1>4, <1>6, <2>1 DEF Fresh
  <2>2. ASSUME NEW j \in 1..Len(L), L[j] # Corrupt
        PROVE  /\ \A c \in N \ {d} : c.place = 1 => c.frame # L[j]
               /\ \A i \in 1..Len(G) : G[i] # Nothing /\ G[i].place = 1 => G[i].frame # L[j]
    BY <1>2, <1>3, <1>6, <2>2 DEF Fresh
  <2> QED BY <2>1, <2>2 DEF Fresh
<1>7. ASSUME Ordered(N, got, L), ~ IsEarly(N, d) PROVE Ordered(N \ {d}, G, L)
  <2>1. ASSUME NEW i \in 1..Len(G), G[i] # Nothing, NEW c \in N \ {d}
        PROVE  Before(G[i], c)
    BY <1>2, <1>3, <1>5, <1>7, <2>1 DEF Ordered
  <2>2. ASSUME NEW j \in 1..Len(L), L[j] # Corrupt
        PROVE  /\ \A c \in N \ {d} : c.place = 1 => L[j] < c.frame
               /\ \A i \in 1..Len(G) : G[i] # Nothing /\ G[i].place = 1 => L[j] < G[i].frame
    BY <1>2, <1>3, <1>7, <2>2 DEF Ordered
  <2> QED BY <2>1, <2>2 DEF Ordered
<1> QED BY <1>6, <1>7 DEF G

\* A chunk that was waited for in vain.
LEMMA FreshNothing ==
  ASSUME NEW N, NEW got \in Seq(OnNet \cup {Nothing}), NEW L
  PROVE  /\ Fresh(N, got, L) => Fresh(N, Append(got, Nothing), L)
         /\ Ordered(N, got, L) => Ordered(N, Append(got, Nothing), L)
<1> DEFINE G == Append(got, Nothing)
<1>1. Len(got) \in Nat
  BY LenProperties
<1>2. /\ Len(G) = Len(got) + 1 /\ G[Len(got) + 1] = Nothing
      /\ \A i \in 1..Len(got) : G[i] = got[i]
  BY <1>1, AppendProperties
<1> HIDE DEF G
<1>3. \A i \in 1..Len(G) : G[i] # Nothing => i \in 1..Len(got) /\ G[i] = got[i]
  BY <1>1, <1>2
<1>4. Fresh(N, got, L) => Fresh(N, G, L)
  BY <1>3 DEF Fresh
<1>5. Ordered(N, got, L) => Ordered(N, G, L)
  BY <1>3 DEF Ordered
<1> QED BY <1>4, <1>5 DEF G

\* Noise is loaded.
LEMMA FreshNoise ==
  ASSUME NEW n \in Nat, NEW L \in Seq(0..n), NEW N, NEW got
  PROVE  LET M == Append(L, Corrupt)
         IN /\ Once(L) => Once(M)
            /\ InOrder(L) => InOrder(M)
            /\ Fresh(N, got, L) => Fresh(N, got, M)
            /\ Ordered(N, got, L) => Ordered(N, got, M)
<1> DEFINE M == Append(L, Corrupt)
<1>1. /\ Len(M) = Len(L) + 1 /\ Len(L) \in Nat /\ M[Len(L) + 1] = Corrupt
      /\ \A i \in 1..Len(L) : M[i] = L[i]
  BY OneMoreLoaded DEF Corrupt
<1> HIDE DEF M
<1>2. \A i \in 1..Len(M) : M[i] # Corrupt => i \in 1..Len(L) /\ M[i] = L[i]
  BY <1>1
<1>3. (Once(L) => Once(M)) /\ (InOrder(L) => InOrder(M))
  BY <1>2 DEF Once, InOrder
<1>4. Fresh(N, got, L) => Fresh(N, got, M)
  BY <1>2 DEF Fresh
<1>5. Ordered(N, got, L) => Ordered(N, got, M)
  BY <1>2 DEF Ordered
<1> QED BY <1>3, <1>4, <1>5 DEF M

\* A frame is loaded whose first chunk was taken.
LEMMA FreshFrame ==
  ASSUME NEW n \in Nat, NEW L \in Seq(0..n), NEW N, NEW got, NEW f \in 1..n,
         1 \in 1..Len(got), got[1] # Nothing, got[1].frame = f, got[1].place = 1,
         Fresh(N, got, L), Once(L), \A d \in N : d.frame \in Nat /\ d.place \in Nat
  PROVE  LET M == Append(L, f)
         IN /\ Once(M) /\ Fresh(N, <<>>, M)
            /\ Ordered(N, got, L) /\ InOrder(L) => InOrder(M) /\ Ordered(N, <<>>, M)
<1> DEFINE M == Append(L, f)
<1>0. f \in 0..n
  OBVIOUS
<1>1. /\ Len(M) = Len(L) + 1 /\ Len(L) \in Nat /\ M[Len(L) + 1] = f
      /\ \A i \in 1..Len(L) : M[i] = L[i] /\ L[i] \in 0..n
  BY <1>0, OneMoreLoaded
<1> HIDE DEF M
<1>2. \A i \in 1..Len(M) : \/ i \in 1..Len(L) /\ M[i] = L[i]
                           \/ i = Len(L) + 1 /\ M[i] = f
  BY <1>1
<1>3. \A j \in 1..Len(L) : L[j] # Corrupt => L[j] # f
  BY DEF Fresh
<1>4. Once(M)
  BY <1>2, <1>3 DEF Once
<1>5. \A d \in N : d.place = 1 => d.frame # f
  BY DEF Fresh
<1>6. \A i : i \notin 1..Len(<<>>)
  OBVIOUS
<1>7. Fresh(N, <<>>, M)
  BY <1>2, <1>5, <1>6 DEF Fresh
<1>8. ASSUME Ordered(N, got, L), InOrder(L) PROVE InOrder(M) /\ Ordered(N, <<>>, M)
  <2>1. \A j \in 1..Len(L) : L[j] # Corrupt => L[j] < f
    BY <1>8 DEF Ordered
  <2>2. InOrder(M)
    <3> SUFFICES ASSUME NEW i \in 1..Len(M), NEW j \in 1..Len(M),
                        M[i] # Corrupt, M[j] # Corrupt, i < j
                 PROVE  M[i] < M[j]
      BY DEF InOrder
    <3>1. i \in 1..Len(L) /\ M[i] = L[i]
      BY <1>1, <1>2
    <3>2. CASE j \in 1..Len(L) /\ M[j] = L[j]
      BY <1>8, <3>1, <3>2 DEF InOrder
    <3>3. CASE j = Len(L) + 1 /\ M[j] = f
      BY <2>1, <3>1, <3>3
    <3> QED BY <1>2, <3>2, <3>3
  <2>3. \A d \in N : d.place = 1 => f < d.frame
    BY <1>8 DEF Ordered, Before
  <2>4. Ordered(N, <<>>, M)
    BY <1>2, <1>6, <1>8, <2>3 DEF Ordered
  <2> QED BY <2>2, <2>4
<1> QED BY <1>4, <1>7, <1>8 DEF M

-----------------------------------------------------------------------------
(***************************************************************************)
(* What the steps do to the invariant of an end.                           *)
(***************************************************************************)
LEMMA OwedFacts ==
  ASSUME NEW n, NEW N, Carries(N, n), NEW r
  PROVE  /\ Cardinality(Torn(N)) \in Nat /\ Owed(N, r) \in Nat
         /\ Doomed(N, r) => Owed(N, r) = Cardinality(Torn(N)) + 1
         /\ ~ Doomed(N, r) => Owed(N, r) = Cardinality(Torn(N))
         /\ Cardinality(Torn(N)) <= Owed(N, r)
         /\ Owed(N, r) <= Cardinality(Torn(N)) + 1
<1>1. Cardinality(Torn(N)) \in Nat
  BY TornFinite
<1> QED BY <1>1 DEF Owed

\* What is assembled is noise, or the frame of the first chunk, the only one of
\* which the chunks can be.
LEMMA AssembledFacts ==
  ASSUME NEW info \in Infos, Expected(info) # 0,
         NEW got \in Seq(OnNet \cup {Nothing}), Len(got) = Expected(info),
         \A i \in 1..Len(got) : got[i] # Nothing
  PROVE  /\ 1 \in 1..Len(got)
         /\ Assembled(info, got) # Corrupt =>
              Assembled(info, got) = got[1].frame /\ got[1].place = 1
         /\ \A f \in Nat : got = send_data(f, info) => Assembled(info, got) = f
<1> DEFINE frames == {f \in {got[i].frame : i \in DOMAIN got} : got = send_data(f, info)}
<1>1. /\ Expected(info) \in Nat /\ 1 \in 1..Expected(info) /\ 1 \in 1..Len(got)
      /\ DOMAIN got = 1..Len(got)
  BY LenProperties DEF Infos, Expected
<1>2. \A i \in 1..Len(got) : got[i] \in OnNet
  BY ElementOfSeq
<1>3. \A i \in 1..Len(got) : got[i].frame \in Nat
  BY <1>2, DatagramFacts
<1>4. ASSUME NEW f \in Nat, got = send_data(f, info)
      PROVE  f = got[1].frame /\ got[1].place = 1
  BY <1>1, <1>4, DataElements
<1>5. \A f \in frames : f = got[1].frame /\ got[1].place = 1
  BY <1>1, <1>3, <1>4
<1>6. Assembled(info, got) = IF frames = {} THEN Corrupt ELSE CHOOSE f \in frames : TRUE
  BY Zenon DEF Assembled
<1>7. ASSUME NEW f \in Nat, got = send_data(f, info) PROVE f \in frames
  BY <1>1, <1>4, <1>7
<1> HIDE DEF frames
<1>8. frames # {} => (CHOOSE f \in frames : TRUE) \in frames
  OBVIOUS
<1>9. Assembled(info, got) # Corrupt =>
        Assembled(info, got) = got[1].frame /\ got[1].place = 1
  BY <1>5, <1>6, <1>8
<1>10. ASSUME NEW f \in Nat, got = send_data(f, info) PROVE Assembled(info, got) = f
  BY <1>4, <1>5, <1>6, <1>7, <1>8, <1>10
<1> QED BY <1>1, <1>9, <1>10

LEMMA SeqGrows ==
  ASSUME NEW n \in Nat, NEW n2 \in Nat, n <= n2, NEW L \in Seq(0..n)
  PROVE  L \in Seq(0..n2)
<1>1. 0..n \subseteq 0..n2
  OBVIOUS
<1> QED BY <1>1

LEMMA SeqOfNat ==
  ASSUME NEW n \in Nat, NEW L \in Seq(0..n)
  PROVE  L \in Seq(Nat)
<1>1. 0..n \subseteq Nat
  OBVIOUS
<1> QED BY <1>1

LEMMA NumbersGrow ==
  ASSUME NEW n \in Nat, NEW n2 \in Nat, n <= n2, NEW N, NEW r
  PROVE  /\ Carries(N, n) => Carries(N, n2)
         /\ ReadState(r, n) => ReadState(r, n2)
<1>1. \A i \in 1..n : i \in 1..n2
  OBVIOUS
<1> QED BY <1>1 DEF Carries, ReadState

\* Nothing is taken; the number of frames and the faults may grow, and the
\* reading may begin or end.
LEMMA StillInv ==
  ASSUME NEW N, NEW r, NEW L, NEW n, NEW k, NEW v, EndInv(N, r, L, n, k, v),
         NEW n2 \in Nat, n <= n2, NEW k2 \in Nat, k <= k2, NEW v2 \in Nat, v <= v2,
         NEW r2, r2 = r \/ \E at \in {"none", "header", "resync"} : r2 = Reading(at)
  PROVE  EndInv(N, r2, L, n2, k2, v2)
<1>1. /\ n \in Nat /\ k \in Nat /\ v \in Nat /\ L \in Seq(0..n)
      /\ Carries(N, n) /\ ReadState(r, n) /\ Once(L) /\ Fresh(N, r.got, L)
      /\ Cardinality(Noises(L)) + Owed(N, r) <= k
      /\ v = 0 => InOrder(L) /\ Ordered(N, r.got, L)
  BY DEF EndInv
<1>2. r2.got \in {r.got, <<>>} /\ ReadState(r2, n) /\ (Doomed(N, r2) => r2 = r)
  BY <1>1, Waits
<1>3. Carries(N, n2) /\ ReadState(r2, n2) /\ L \in Seq(0..n2)
  BY <1>1, <1>2, NumbersGrow, SeqGrows
<1>4. Fresh(N, r2.got, L) /\ (Ordered(N, r.got, L) => Ordered(N, r2.got, L))
  BY <1>1, <1>2, FreshLess
<1>5. Cardinality(Noises(L)) + Owed(N, r2) <= k2
  <2>1. Cardinality(Noises(L)) \in Nat
    BY <1>1, NoisesFinite
  <2>2. Owed(N, r2) <= Owed(N, r) /\ Owed(N, r2) \in Nat /\ Owed(N, r) \in Nat
    <3>1. CASE r2 = r
      BY <1>1, <3>1, OwedFacts
    <3>2. CASE ~ Doomed(N, r2)
      BY <1>1, <3>2, OwedFacts
    <3> QED BY <1>2, <3>1, <3>2
  <2> QED BY <1>1, <2>1, <2>2
<1>6. v2 = 0 => v = 0
  BY <1>1
<1> QED BY <1>1, <1>3, <1>4, <1>5, <1>6 DEF EndInv

\* A frame is sent, with all its chunks or but one.
LEMMA SentInv ==
  ASSUME NEW N, NEW r, NEW L, NEW n, NEW k, NEW v, EndInv(N, r, L, n, k, v),
         NEW type \in Types, NEW s \in Frames, NEW D, SentFor(D, n + 1, type, s),
         NEW k2 \in Nat, k <= k2, D = respond(type, n + 1, s) \/ k + 1 <= k2
  PROVE  EndInv(N \cup D, r, L, n + 1, k2, v)
<1>1. /\ n \in Nat /\ k \in Nat /\ v \in Nat /\ L \in Seq(0..n)
      /\ Carries(N, n) /\ ReadState(r, n) /\ Once(L) /\ Fresh(N, r.got, L)
      /\ Cardinality(Noises(L)) + Owed(N, r) <= k
      /\ v = 0 => InOrder(L) /\ Ordered(N, r.got, L)
  BY DEF EndInv
<1>2. /\ Carries(N \cup D, n + 1)
      /\ \A d \in D : d.frame = n + 1
      /\ Cardinality(Torn(N \cup D)) <= Cardinality(Torn(N)) + 1
      /\ D = respond(type, n + 1, s) =>
           Cardinality(Torn(N \cup D)) <= Cardinality(Torn(N))
  BY <1>1, SentFacts
<1>3. D \subseteq OnNet
  BY <1>2 DEF Carries
<1>4. Fresh(N \cup D, r.got, L) /\ (Ordered(N, r.got, L) => Ordered(N \cup D, r.got, L))
  BY <1>1, <1>2, <1>3, FreshMore
<1>5. ReadState(r, n + 1) /\ L \in Seq(0..(n + 1)) /\ n + 1 \in Nat
  <2>1. n + 1 \in Nat /\ n <= n + 1
    BY <1>1
  <2> QED BY <1>1, <2>1, NumbersGrow, SeqGrows
<1>6. Doomed(N \cup D, r) => Doomed(N, r)
  BY <1>1, <1>2, FineStays DEF Doomed
<1>7. Cardinality(Noises(L)) + Owed(N \cup D, r) <= k2
  <2>1. Cardinality(Noises(L)) \in Nat
    BY <1>1, NoisesFinite
  <2>2. /\ Cardinality(Torn(N)) \in Nat /\ Owed(N, r) \in Nat
        /\ Doomed(N, r) => Owed(N, r) = Cardinality(Torn(N)) + 1
        /\ ~ Doomed(N, r) => Owed(N, r) = Cardinality(Torn(N))
    BY <1>1, OwedFacts
  <2>3. /\ Cardinality(Torn(N \cup D)) \in Nat /\ Owed(N \cup D, r) \in Nat
        /\ Doomed(N \cup D, r) => Owed(N \cup D, r) = Cardinality(Torn(N \cup D)) + 1
        /\ ~ Doomed(N \cup D, r) => Owed(N \cup D, r) = Cardinality(Torn(N \cup D))
    BY <1>2, OwedFacts
  <2>4. /\ Owed(N \cup D, r) <= Owed(N, r) + 1
        /\ D = respond(type, n + 1, s) => Owed(N \cup D, r) <= Owed(N, r)
    <3>1. CASE Doomed(N \cup D, r)
      BY <1>2, <1>6, <2>2, <2>3, <3>1
    <3>2. CASE ~ Doomed(N \cup D, r)
      BY <1>2, <2>2, <2>3, <3>2
    <3> QED BY <3>1, <3>2
  <2>5. k \in Nat /\ Cardinality(Noises(L)) + Owed(N, r) <= k
    BY <1>1
  <2>6. CASE D = respond(type, n + 1, s)
    BY <2>1, <2>2, <2>3, <2>4, <2>5, <2>6
  <2>7. CASE k + 1 <= k2
    BY <2>1, <2>2, <2>3, <2>4, <2>5, <2>7
  <2> QED BY <2>6, <2>7
<1> QED BY <1>1, <1>2, <1>4, <1>5, <1>7 DEF EndInv

\* A datagram is lost in its turn: what is read may be doomed by it.
LEMMA LostInv ==
  ASSUME NEW N, NEW r, NEW L, NEW n, NEW k, NEW v, EndInv(N, r, L, n, k, v),
         NEW d \in N, ~ IsEarly(N, d), NEW k2 \in Nat, k + 1 <= k2
  PROVE  EndInv(N \ {d}, r, L, n, k2, v)
<1>1. /\ n \in Nat /\ k \in Nat /\ v \in Nat /\ L \in Seq(0..n)
      /\ Carries(N, n) /\ ReadState(r, n) /\ Once(L) /\ Fresh(N, r.got, L)
      /\ Cardinality(Noises(L)) + Owed(N, r) <= k
      /\ v = 0 => InOrder(L) /\ Ordered(N, r.got, L)
  BY DEF EndInv
<1>2. Carries(N \ {d}, n)
  BY <1>1, CarriesLess
<1>3. Cardinality(Torn(N \ {d})) <= Cardinality(Torn(N))
  BY <1>1, TornTaken
<1>4. /\ Fresh(N \ {d}, r.got, L)
      /\ Ordered(N, r.got, L) => Ordered(N \ {d}, r.got, L)
  BY <1>1, FreshLess
<1>5. Cardinality(Noises(L)) + Owed(N \ {d}, r) <= k2
  <2>1. Cardinality(Noises(L)) \in Nat
    BY <1>1, NoisesFinite
  <2>2. /\ Cardinality(Torn(N)) \in Nat /\ Owed(N, r) \in Nat
        /\ Cardinality(Torn(N)) <= Owed(N, r)
    BY <1>1, OwedFacts
  <2>3. /\ Cardinality(Torn(N \ {d})) \in Nat /\ Owed(N \ {d}, r) \in Nat
        /\ Owed(N \ {d}, r) <= Cardinality(Torn(N \ {d})) + 1
    BY <1>2, OwedFacts
  <2> QED BY <1>1, <1>3, <2>1, <2>2, <2>3
<1> QED BY <1>1, <1>2, <1>4, <1>5 DEF EndInv

\* A datagram is taken, and the reading goes on without it or ends.
LEMMA DroppedInv ==
  ASSUME NEW N, NEW r, NEW L, NEW n, NEW k, NEW v, EndInv(N, r, L, n, k, v),
         NEW d \in N, NEW at \in {"none", "header", "resync"},
         NEW k2 \in Nat, k <= k2, NEW v2 \in Nat, v <= v2,
         IsEarly(N, d) => k + 2 <= k2 /\ v2 # 0
  PROVE  EndInv(N \ {d}, Reading(at), L, n, k2, v2)
<1>1. /\ n \in Nat /\ k \in Nat /\ v \in Nat /\ L \in Seq(0..n)
      /\ Carries(N, n) /\ ReadState(r, n) /\ Once(L) /\ Fresh(N, r.got, L)
      /\ Cardinality(Noises(L)) + Owed(N, r) <= k
      /\ v = 0 => InOrder(L) /\ Ordered(N, r.got, L)
  BY DEF EndInv
<1> DEFINE r2 == Reading(at)
<1>2. Carries(N \ {d}, n)
  BY <1>1, CarriesLess
<1>3. /\ Cardinality(Torn(N \ {d})) <= Cardinality(Torn(N)) + 1
      /\ ~ IsEarly(N, d) => Cardinality(Torn(N \ {d})) <= Cardinality(Torn(N))
  BY <1>1, TornTaken
<1>4. r2.got = <<>> /\ ReadState(r2, n) /\ ~ Doomed(N \ {d}, r2)
  BY Waits
<1> HIDE DEF r2
<1>5. /\ Fresh(N \ {d}, r2.got, L)
      /\ Ordered(N, r.got, L) => Ordered(N \ {d}, r2.got, L)
  BY <1>1, <1>4, FreshLess
<1>6. Cardinality(Noises(L)) + Owed(N \ {d}, r2) <= k2
  <2>1. Cardinality(Noises(L)) \in Nat
    BY <1>1, NoisesFinite
  <2>2. /\ Cardinality(Torn(N)) \in Nat /\ Owed(N, r) \in Nat
        /\ Cardinality(Torn(N)) <= Owed(N, r)
    BY <1>1, OwedFacts
  <2>3. /\ Cardinality(Torn(N \ {d})) \in Nat
        /\ Owed(N \ {d}, r2) = Cardinality(Torn(N \ {d}))
    BY <1>2, <1>4, OwedFacts
  <2> QED BY <1>1, <1>3, <2>1, <2>2, <2>3
<1>7. v2 = 0 => v = 0
  BY <1>1
<1> QED BY <1>1, <1>2, <1>4, <1>5, <1>6, <1>7 DEF EndInv, r2

\* The same with noise loaded, which was owed already or is caused by d.
LEMMA NoiseInv ==
  ASSUME NEW N, NEW r, NEW L, NEW n, NEW k, NEW v, EndInv(N, r, L, n, k, v),
         NEW d \in N, NEW k2 \in Nat, k <= k2, NEW v2 \in Nat, v <= v2,
         IsEarly(N, d) => k + 2 <= k2 /\ v2 # 0,
         Doomed(N, r) \/ k + 1 <= k2
  PROVE  EndInv(N \ {d}, Reading("none"), Append(L, Corrupt), n, k2, v2)
<1>1. /\ n \in Nat /\ k \in Nat /\ v \in Nat /\ L \in Seq(0..n)
      /\ Carries(N, n) /\ ReadState(r, n) /\ Once(L) /\ Fresh(N, r.got, L)
      /\ Cardinality(Noises(L)) + Owed(N, r) <= k
      /\ v = 0 => InOrder(L) /\ Ordered(N, r.got, L)
  BY DEF EndInv
<1> DEFINE r2 == Reading("none")
           M == Append(L, Corrupt)
<1>2. Carries(N \ {d}, n)
  BY <1>1, CarriesLess
<1>3. /\ Cardinality(Torn(N \ {d})) <= Cardinality(Torn(N)) + 1
      /\ ~ IsEarly(N, d) => Cardinality(Torn(N \ {d})) <= Cardinality(Torn(N))
  BY <1>1, TornTaken
<1>4. r2.got = <<>> /\ ReadState(r2, n) /\ ~ Doomed(N \ {d}, r2)
  BY Waits
<1> HIDE DEF r2
<1>5. /\ Fresh(N \ {d}, r2.got, L)
      /\ Ordered(N, r.got, L) => Ordered(N \ {d}, r2.got, L)
  BY <1>1, <1>4, FreshLess
<1>6. /\ Once(M) /\ (InOrder(L) => InOrder(M))
      /\ Fresh(N \ {d}, r2.got, M)
      /\ Ordered(N \ {d}, r2.got, L) => Ordered(N \ {d}, r2.got, M)
  BY <1>1, <1>5, FreshNoise
<1>7. /\ M \in Seq(0..n) /\ Cardinality(Noises(M)) \in Nat /\ Cardinality(Noises(L)) \in Nat
      /\ Cardinality(Noises(M)) <= Cardinality(Noises(L)) + 1
  BY <1>1, OneMoreLoaded DEF Corrupt
<1> HIDE DEF M
<1>8. Cardinality(Noises(M)) + Owed(N \ {d}, r2) <= k2
  <2>1. /\ Cardinality(Torn(N)) \in Nat /\ Owed(N, r) \in Nat
        /\ Cardinality(Torn(N)) <= Owed(N, r)
        /\ Doomed(N, r) => Owed(N, r) = Cardinality(Torn(N)) + 1
    BY <1>1, OwedFacts
  <2>2. /\ Cardinality(Torn(N \ {d})) \in Nat
        /\ Owed(N \ {d}, r2) = Cardinality(Torn(N \ {d}))
    BY <1>2, <1>4, OwedFacts
  <2> QED BY <1>1, <1>3, <1>7, <2>1, <2>2
<1>9. v2 = 0 => v = 0
  BY <1>1
<1> QED BY <1>1, <1>2, <1>4, <1>5, <1>6, <1>7, <1>8, <1>9 DEF EndInv, r2, M

\* A header is taken, or a chunk that looks like one, and data waited for.
LEMMA HeaderInv ==
  ASSUME NEW N, NEW r, NEW L, NEW n, NEW k, NEW v, EndInv(N, r, L, n, k, v),
         r.at # "data", NEW d \in N, NEW info \in Infos, Expected(info) > 0,
         NEW r2, r2 = [at |-> "data", info |-> info, got |-> <<>>],
         NEW k2 \in Nat, k <= k2, NEW v2 \in Nat, v <= v2,
         IsEarly(N, d) => k + 2 <= k2 /\ v2 # 0,
         (IsHeader(d) /\ info = Told(d)) \/ (~ IsEarly(N, d) /\ k + 1 <= k2) \/ k + 3 <= k2
  PROVE  EndInv(N \ {d}, r2, L, n, k2, v2)
<1>1. /\ n \in Nat /\ k \in Nat /\ v \in Nat /\ L \in Seq(0..n)
      /\ Carries(N, n) /\ ReadState(r, n) /\ Once(L) /\ Fresh(N, r.got, L)
      /\ Cardinality(Noises(L)) + Owed(N, r) <= k
      /\ v = 0 => InOrder(L) /\ Ordered(N, r.got, L)
  BY DEF EndInv
<1>2. Carries(N \ {d}, n)
  BY <1>1, CarriesLess
<1>3. /\ Cardinality(Torn(N \ {d})) <= Cardinality(Torn(N)) + 1
      /\ ~ IsEarly(N, d) => Cardinality(Torn(N \ {d})) <= Cardinality(Torn(N))
      /\ ~ IsEarly(N, d) /\ d \in Torn(N) =>
           Cardinality(Torn(N \ {d})) <= Cardinality(Torn(N)) - 1
  BY <1>1, TornTaken
<1>4. r2.got = <<>> /\ r2.info = info /\ r2.at = "data" /\ Len(r2.got) = 0
  OBVIOUS
<1>5. ReadState(r2, n)
  <2>1. r2 \in [at : {"none", "header", "resync", "data"}, info : Infos,
                got : Seq(OnNet \cup {Nothing})]
    OBVIOUS
  <2>2. Expected(info) \in Nat
    BY DEF Infos, Expected
  <2>3. \A i \in 1..Len(r2.got) : FALSE
    BY <1>4
  <2> QED BY <1>4, <2>1, <2>2, <2>3 DEF ReadState
<1>6. /\ Fresh(N \ {d}, r2.got, L)
      /\ Ordered(N, r.got, L) => Ordered(N \ {d}, r2.got, L)
  BY <1>1, <1>4, FreshLess
<1>7. IsHeader(d) /\ info = Told(d) /\ ~ IsEarly(N, d) /\ d \notin Torn(N) =>
        ~ Doomed(N \ {d}, r2)
  <2> SUFFICES ASSUME IsHeader(d), info = Told(d), ~ IsEarly(N, d), d \notin Torn(N)
               PROVE  Fine(N \ {d}, r2)
    BY DEF Doomed
  <2> QED BY <1>1, <1>4, FineHeader
<1>8. Cardinality(Noises(L)) + Owed(N \ {d}, r2) <= k2
  <2>1. Cardinality(Noises(L)) \in Nat
    BY <1>1, NoisesFinite
  <2>2. ~ Doomed(N, r)
    BY DEF Doomed
  <2>3. Cardinality(Torn(N)) \in Nat /\ Owed(N, r) = Cardinality(Torn(N))
    BY <1>1, <2>2, OwedFacts
  <2>4. /\ Cardinality(Torn(N \ {d})) \in Nat /\ Owed(N \ {d}, r2) \in Nat
        /\ Owed(N \ {d}, r2) <= Cardinality(Torn(N \ {d})) + 1
        /\ ~ Doomed(N \ {d}, r2) => Owed(N \ {d}, r2) = Cardinality(Torn(N \ {d}))
    BY <1>2, OwedFacts
  <2>5. CASE IsEarly(N, d)
    BY <1>1, <1>3, <2>1, <2>3, <2>4, <2>5
  <2>6. CASE ~ IsEarly(N, d) /\ k + 1 <= k2
    BY <1>1, <1>3, <2>1, <2>3, <2>4, <2>6
  <2>7. CASE ~ IsEarly(N, d) /\ IsHeader(d) /\ info = Told(d) /\ d \in Torn(N)
    BY <1>1, <1>3, <2>1, <2>3, <2>4, <2>7
  <2>8. CASE ~ IsEarly(N, d) /\ IsHeader(d) /\ info = Told(d) /\ d \notin Torn(N)
    BY <1>1, <1>3, <1>7, <2>1, <2>3, <2>4, <2>8
  <2>9. k + 3 <= k2 => k + 1 <= k2
    BY <1>1
  <2> QED BY <2>5, <2>6, <2>7, <2>8, <2>9
<1>9. v2 = 0 => v = 0
  BY <1>1
<1> QED BY <1>1, <1>2, <1>5, <1>6, <1>8, <1>9 DEF EndInv

\* What read_package has after another datagram, or after none came.
GotAlso(r, d) == [r EXCEPT !.got = Append(r.got, d)]

LEMMA GotMore ==
  ASSUME NEW n, NEW r, ReadState(r, n), r.at = "data",
         NEW d \in OnNet \cup {Nothing}, d # Nothing => d.frame \in 1..n,
         NEW r2, r2 = GotAlso(r, d),
         Len(r.got) + 1 < Expected(r.info)
  PROVE  /\ ReadState(r2, n) /\ r2.at = "data" /\ r2.info = r.info
         /\ r2.got = Append(r.got, d) /\ Len(r2.got) = Len(r.got) + 1
         /\ r2.got[Len(r.got) + 1] = d
         /\ \A i \in 1..Len(r.got) : r2.got[i] = r.got[i]
<1>1. /\ Len(r.got) \in Nat /\ r.info \in Infos /\ Expected(r.info) \in Nat
      /\ r.got \in Seq(OnNet \cup {Nothing})
  BY ReadFacts
<1> DEFINE G == Append(r.got, d)
<1>g. G \in Seq(OnNet \cup {Nothing})
  BY <1>1, AppendProperties
<1>2. /\ r2.at = "data" /\ r2.info = r.info /\ r2.got = G
      /\ r2 \in [at : {"none", "header", "resync", "data"}, info : Infos,
                 got : Seq(OnNet \cup {Nothing})]
  <2> HIDE DEF G
  <2>1. r \in [at : {"none", "header", "resync", "data"}, info : Infos,
               got : Seq(OnNet \cup {Nothing})]
    BY DEF ReadState
  <2>2. r2 = [r EXCEPT !.got = G]
    BY DEF GotAlso, G
  <2> QED BY <1>g, <2>1, <2>2
<1>3. /\ Len(r2.got) = Len(r.got) + 1 /\ r2.got[Len(r.got) + 1] = d
      /\ \A i \in 1..Len(r.got) : r2.got[i] = r.got[i]
  BY <1>1, <1>2, AppendProperties
<1>4. \A i \in 1..Len(r2.got) : r2.got[i] # Nothing => r2.got[i].frame \in 1..n
  <2> SUFFICES ASSUME NEW i \in 1..Len(r2.got), r2.got[i] # Nothing
               PROVE  r2.got[i].frame \in 1..n
    OBVIOUS
  <2>1. CASE i \in 1..Len(r.got)
    <3>1. r2.got[i] = r.got[i]
      BY <1>3, <2>1
    <3> QED BY <2>1, <3>1 DEF ReadState
  <2>2. CASE i = Len(r.got) + 1
    BY <1>3, <2>2
  <2> QED BY <1>1, <1>3, <2>1, <2>2
<1>5. Len(r2.got) < Expected(r2.info) /\ Len(r2.got) <= Expected(r2.info)
  BY <1>1, <1>2, <1>3
<1>6. ReadState(r2, n)
  BY <1>2, <1>4, <1>5 DEF ReadState
<1> QED BY <1>2, <1>3, <1>6

\* A chunk is taken, or what comes in its place.
LEMMA ChunkInv ==
  ASSUME NEW N, NEW r, NEW L, NEW n, NEW k, NEW v, EndInv(N, r, L, n, k, v),
         r.at = "data", NEW d \in N, Len(r.got) + 1 < Expected(r.info),
         NEW r2, r2 = GotAlso(r, d),
         NEW k2 \in Nat, k <= k2, NEW v2 \in Nat, v <= v2,
         IsEarly(N, d) => k + 2 <= k2 /\ v2 # 0
  PROVE  EndInv(N \ {d}, r2, L, n, k2, v2)
<1>1. /\ n \in Nat /\ k \in Nat /\ v \in Nat /\ L \in Seq(0..n)
      /\ Carries(N, n) /\ ReadState(r, n) /\ Once(L) /\ Fresh(N, r.got, L)
      /\ Cardinality(Noises(L)) + Owed(N, r) <= k
      /\ v = 0 => InOrder(L) /\ Ordered(N, r.got, L)
  BY DEF EndInv
<1>2. Carries(N \ {d}, n)
  BY <1>1, CarriesLess
<1>3. /\ Cardinality(Torn(N \ {d})) <= Cardinality(Torn(N)) + 1
      /\ ~ IsEarly(N, d) => Cardinality(Torn(N \ {d})) <= Cardinality(Torn(N))
  BY <1>1, TornTaken
<1>4. d \in OnNet /\ d # Nothing /\ d.frame \in 1..n
  BY <1>1, WireFacts DEF Carries
<1>5. /\ ReadState(r2, n) /\ r2.at = "data" /\ r2.info = r.info
      /\ r2.got = Append(r.got, d) /\ Len(r2.got) = Len(r.got) + 1
      /\ r2.got[Len(r.got) + 1] = d
      /\ \A i \in 1..Len(r.got) : r2.got[i] = r.got[i]
  <2>1. ReadState(r, n) /\ d \in OnNet \cup {Nothing} /\ (d # Nothing => d.frame \in 1..n)
    BY <1>1, <1>4
  <2> QED BY <2>1, GotMore
<1>6. r.got \in Seq(OnNet \cup {Nothing}) /\ Len(r.got) \in Nat /\ Expected(r.info) \in Nat
  BY <1>1, ReadFacts
<1>7. /\ Fresh(N \ {d}, r2.got, L)
      /\ Ordered(N, r.got, L) /\ ~ IsEarly(N, d) => Ordered(N \ {d}, r2.got, L)
  <2>1. /\ Fresh(N \ {d}, Append(r.got, d), L)
        /\ Ordered(N, r.got, L) /\ ~ IsEarly(N, d) => Ordered(N \ {d}, Append(r.got, d), L)
    BY <1>1, <1>6, FreshTaken
  <2> QED BY <1>5, <2>1
<1>8. ASSUME ~ IsEarly(N, d), Doomed(N \ {d}, r2) PROVE Doomed(N, r)
  <2>1. \A i \in 1..Len(r.got) : r.got[i] # Nothing
    <3>1. \A i \in 1..Len(r.got) : i \in 1..Len(r2.got)
      BY <1>5, <1>6
    <3> QED BY <1>5, <1>8, <3>1 DEF Doomed
  <2>2. ~ Fine(N, r)
    <3> SUFFICES ASSUME NEW f \in Nat, FineFor(N, r, f) PROVE FALSE
      BY DEF Fine
    <3>1. /\ d = send_data(f, r.info)[Len(r.got) + 1]
          /\ \A c \in N \ {d} : c.frame > f \/ (c.frame = f /\ c.place > Len(r.got) + 1)
      BY <1>1, <1>8, FineNext
    <3>2. ASSUME NEW i \in 1..Len(r2.got) PROVE r2.got[i] = send_data(f, r2.info)[i]
      <4>1. CASE i \in 1..Len(r.got)
        BY <1>5, <4>1 DEF FineFor
      <4>2. CASE i = Len(r.got) + 1
        BY <1>5, <3>1, <4>2
      <4> QED BY <1>5, <1>6, <4>1, <4>2
    <3>3. ASSUME NEW i \in (Len(r2.got) + 1)..Expected(r2.info)
          PROVE  send_data(f, r2.info)[i] \in N \ {d}
      <4>1. /\ i \in (Len(r.got) + 1)..Expected(r.info) /\ i # Len(r.got) + 1
            /\ i \in 1..Expected(r.info) /\ Len(r.got) + 1 \in 1..Expected(r.info)
        BY <1>5, <1>6
      <4>2. send_data(f, r.info)[i] \in N
        BY <4>1 DEF FineFor
      <4>3. /\ send_data(f, r.info)[i].place = i
            /\ send_data(f, r.info)[Len(r.got) + 1].place = Len(r.got) + 1
        <5>1. r.info \in Infos /\ Expected(r.info) # 0
          BY <1>1, <1>6, ReadFacts
        <5> QED BY <4>1, <5>1, DataElements
      <4> QED BY <1>5, <3>1, <4>1, <4>2, <4>3
    <3>4. \A c \in N \ {d} : c.frame > f \/ (c.frame = f /\ c.place > Len(r2.got))
      BY <1>5, <3>1
    <3>5. FineFor(N \ {d}, r2, f)
      BY <3>2, <3>3, <3>4 DEF FineFor
    <3> QED BY <1>8, <3>5 DEF Doomed, Fine
  <2> QED BY <2>1, <2>2 DEF Doomed
<1>9. Cardinality(Noises(L)) + Owed(N \ {d}, r2) <= k2
  <2>1. Cardinality(Noises(L)) \in Nat
    BY <1>1, NoisesFinite
  <2>2. /\ Cardinality(Torn(N)) \in Nat /\ Owed(N, r) \in Nat
        /\ Cardinality(Torn(N)) <= Owed(N, r)
        /\ Doomed(N, r) => Owed(N, r) = Cardinality(Torn(N)) + 1
    BY <1>1, OwedFacts
  <2>3. /\ Cardinality(Torn(N \ {d})) \in Nat /\ Owed(N \ {d}, r2) \in Nat
        /\ Owed(N \ {d}, r2) <= Cardinality(Torn(N \ {d})) + 1
        /\ ~ Doomed(N \ {d}, r2) => Owed(N \ {d}, r2) = Cardinality(Torn(N \ {d}))
    BY <1>2, OwedFacts
  <2>4. CASE IsEarly(N, d)
    BY <1>1, <1>3, <2>1, <2>2, <2>3, <2>4
  <2>5. CASE ~ IsEarly(N, d)
    BY <1>1, <1>3, <1>8, <2>1, <2>2, <2>3, <2>5
  <2> QED BY <2>4, <2>5
<1>10. v2 = 0 => v = 0 /\ ~ IsEarly(N, d)
  BY <1>1
<1> QED BY <1>1, <1>2, <1>5, <1>7, <1>9, <1>10 DEF EndInv

\* The last chunk is taken, and what was taken is loaded.
LEMMA LoadedInv ==
  ASSUME NEW N, NEW r, NEW L, NEW n, NEW k, NEW v, EndInv(N, r, L, n, k, v),
         r.at = "data", NEW d \in N, Len(r.got) + 1 = Expected(r.info),
         NEW G, G = Append(r.got, d), \A i \in 1..Len(G) : G[i] # Nothing,
         NEW k2 \in Nat, k <= k2, NEW v2 \in Nat, v <= v2,
         IsEarly(N, d) => k + 2 <= k2 /\ v2 # 0
  PROVE  EndInv(N \ {d}, Reading("none"), Append(L, Assembled(r.info, G)), n, k2, v2)
<1>1. /\ n \in Nat /\ k \in Nat /\ v \in Nat /\ L \in Seq(0..n)
      /\ Carries(N, n) /\ ReadState(r, n) /\ Once(L) /\ Fresh(N, r.got, L)
      /\ Cardinality(Noises(L)) + Owed(N, r) <= k
      /\ v = 0 => InOrder(L) /\ Ordered(N, r.got, L)
  BY DEF EndInv
<1>2. /\ r.got \in Seq(OnNet \cup {Nothing}) /\ Len(r.got) \in Nat
      /\ r.info \in Infos /\ Expected(r.info) \in Nat /\ Expected(r.info) # 0
  BY <1>1, ReadFacts
<1>3. d \in OnNet /\ d # Nothing /\ d.frame \in 1..n
  BY <1>1, WireFacts DEF Carries
<1>4. /\ G \in Seq(OnNet \cup {Nothing}) /\ Len(G) = Expected(r.info)
      /\ Len(G) = Len(r.got) + 1 /\ G[Len(r.got) + 1] = d
      /\ \A i \in 1..Len(r.got) : G[i] = r.got[i]
  BY <1>2, <1>3, AppendProperties
<1> DEFINE x == Assembled(r.info, G)
           r2 == Reading("none")
           M == Append(L, x)
<1>5. /\ 1 \in 1..Len(G)
      /\ x # Corrupt => x = G[1].frame /\ G[1].place = 1
      /\ \A f \in Nat : G = send_data(f, r.info) => x = f
  BY <1>2, <1>4, AssembledFacts
<1>6. /\ Fresh(N \ {d}, G, L)
      /\ Ordered(N, r.got, L) /\ ~ IsEarly(N, d) => Ordered(N \ {d}, G, L)
  BY <1>1, <1>2, FreshTaken
<1>7. r2.got = <<>> /\ ReadState(r2, n) /\ ~ Doomed(N \ {d}, r2)
  BY Waits
<1>8. G[1].frame \in 1..n
  <2>1. CASE 1 \in 1..Len(r.got)
    <3>1. G[1] = r.got[1] /\ G[1] # Nothing
      BY <1>4, <1>5, <2>1
    <3> QED BY <1>1, <2>1, <3>1 DEF ReadState
  <2>2. CASE 1 = Len(r.got) + 1
    BY <1>3, <1>4, <2>2
  <2> QED BY <1>2, <1>4, <1>5, <2>1, <2>2
<1>9. CASE x = Corrupt
  <2>1. ASSUME ~ IsEarly(N, d) PROVE Doomed(N, r)
    <3>1. \A i \in 1..Len(r.got) : r.got[i] # Nothing
      <4>1. \A i \in 1..Len(r.got) : i \in 1..Len(G)
        BY <1>2, <1>4
      <4> QED BY <1>4, <4>1
    <3>2. ASSUME NEW f \in Nat, FineFor(N, r, f) PROVE FALSE
      <4>1. d = send_data(f, r.info)[Len(r.got) + 1] /\ f \in 1..n
        BY <1>1, <2>1, <3>2, FineNext
      <4>2. \A i \in 1..Len(G) : G[i] = send_data(f, r.info)[i]
        <5>1. \A i \in 1..Len(G) : i \in 1..Len(r.got) \/ i = Len(r.got) + 1
          BY <1>2, <1>4
        <5> QED BY <1>4, <3>2, <4>1, <5>1 DEF FineFor
      <4>3. /\ send_data(f, r.info) \in Seq(DataChunks)
            /\ Len(send_data(f, r.info)) = Expected(r.info)
        BY <1>2, DataElements
      <4>4. G = send_data(f, r.info)
        <5>1. send_data(f, r.info) \in Seq(OnNet \cup {Nothing})
          BY <4>3 DEF OnNet
        <5> QED BY <1>4, <4>2, <4>3, <5>1, SeqEqual
      <4> QED BY <1>5, <1>9, <4>1, <4>4 DEF Corrupt
    <3> QED BY <3>1, <3>2 DEF Doomed, Fine
  <2>2. Doomed(N, r) \/ k + 1 <= k2
    BY <1>1, <2>1
  <2>3. EndInv(N \ {d}, r2, Append(L, Corrupt), n, k2, v2)
    BY <2>2, NoiseInv
  <2> QED BY <1>9, <2>3
<1>10. CASE x # Corrupt
  <2>1. x = G[1].frame /\ G[1].place = 1 /\ x \in 1..n /\ x \in 0..n /\ G[1] # Nothing
    BY <1>5, <1>8, <1>10
  <2> HIDE DEF x, r2
  <2>2. \A c \in N \ {d} : c.frame \in Nat /\ c.place \in Nat
    BY <1>1, WireFacts
  <2>3. /\ Once(M) /\ Fresh(N \ {d}, <<>>, M)
        /\ Ordered(N \ {d}, G, L) /\ InOrder(L) => InOrder(M) /\ Ordered(N \ {d}, <<>>, M)
    BY <1>1, <1>5, <1>6, <2>1, <2>2, FreshFrame
  <2>4. /\ M \in Seq(0..n) /\ Cardinality(Noises(M)) \in Nat /\ Cardinality(Noises(L)) \in Nat
        /\ Cardinality(Noises(M)) <= Cardinality(Noises(L))
    BY <1>1, <1>10, <2>1, OneMoreLoaded
  <2> HIDE DEF M
  <2>5. Carries(N \ {d}, n)
    BY <1>1, CarriesLess
  <2>6. /\ Cardinality(Torn(N \ {d})) <= Cardinality(Torn(N)) + 1
        /\ ~ IsEarly(N, d) => Cardinality(Torn(N \ {d})) <= Cardinality(Torn(N))
    BY <1>1, TornTaken
  <2>7. Cardinality(Noises(M)) + Owed(N \ {d}, r2) <= k2
    <3>1. /\ Cardinality(Torn(N)) \in Nat /\ Owed(N, r) \in Nat
          /\ Cardinality(Torn(N)) <= Owed(N, r)
      BY <1>1, OwedFacts
    <3>2. /\ Cardinality(Torn(N \ {d})) \in Nat
          /\ Owed(N \ {d}, r2) = Cardinality(Torn(N \ {d}))
      BY <1>7, <2>5, OwedFacts
    <3> QED BY <1>1, <2>4, <2>6, <3>1, <3>2
  <2>8. v2 = 0 => v = 0 /\ ~ IsEarly(N, d)
    BY <1>1
  <2>9. EndInv(N \ {d}, r2, M, n, k2, v2)
    BY <1>1, <1>6, <1>7, <2>3, <2>4, <2>5, <2>7, <2>8 DEF EndInv
  <2> QED BY <2>9 DEF M, r2, x
<1> QED BY <1>9, <1>10

\* A chunk is waited for in vain, and others after it.
LEMMA NothingInv ==
  ASSUME NEW N, NEW r, NEW L, NEW n, NEW k, NEW v, EndInv(N, r, L, n, k, v),
         r.at = "data", Len(r.got) + 1 < Expected(r.info),
         NEW r2, r2 = GotAlso(r, Nothing)
  PROVE  EndInv(N, r2, L, n, k, v)
<1>1. /\ n \in Nat /\ k \in Nat /\ v \in Nat /\ L \in Seq(0..n)
      /\ Carries(N, n) /\ ReadState(r, n) /\ Once(L) /\ Fresh(N, r.got, L)
      /\ Cardinality(Noises(L)) + Owed(N, r) <= k
      /\ v = 0 => InOrder(L) /\ Ordered(N, r.got, L)
  BY DEF EndInv
<1>2. /\ ReadState(r2, n) /\ r2.got = Append(r.got, Nothing)
      /\ Len(r2.got) = Len(r.got) + 1 /\ r2.got[Len(r.got) + 1] = Nothing
  BY <1>1, GotMore
<1>3. r.got \in Seq(OnNet \cup {Nothing}) /\ Len(r.got) \in Nat
  BY <1>1, ReadFacts
<1>4. /\ Fresh(N, r2.got, L)
      /\ Ordered(N, r.got, L) => Ordered(N, r2.got, L)
  BY <1>1, <1>2, <1>3, FreshNothing
<1>5. ~ Doomed(N, r2)
  <2>1. Len(r.got) + 1 \in 1..Len(r2.got)
    BY <1>2, <1>3
  <2> QED BY <1>2, <2>1 DEF Doomed
<1>6. Cardinality(Noises(L)) + Owed(N, r2) <= k
  <2>1. Cardinality(Noises(L)) \in Nat
    BY <1>1, NoisesFinite
  <2>2. /\ Cardinality(Torn(N)) \in Nat /\ Owed(N, r) \in Nat
        /\ Cardinality(Torn(N)) <= Owed(N, r)
        /\ Owed(N, r2) = Cardinality(Torn(N))
    BY <1>1, <1>5, OwedFacts
  <2> QED BY <1>1, <2>1, <2>2
<1> QED BY <1>1, <1>2, <1>4, <1>6 DEF EndInv

-----------------------------------------------------------------------------
(***************************************************************************)
(* The invariant: what the values are, how many frames there are, and the  *)
(* invariant of each end.  A package that is taken from the microphone is  *)
(* counted in Recorded, and an end that is about to send with no package   *)
(* recorded will add one frame to it.                                      *)
(***************************************************************************)

\* The frame that end e will send without a package.
EmptyFrame(e) == IF sender[e] = "send" /\ m_input_queue[e] = 0 THEN 1 ELSE 0

\* The frames sent to end e, Done among them, and the noise that is accounted for.
Number(e) == sent[Other(e)] + IF sender[Other(e)] = "over" THEN 1 ELSE 0
Blame     == lost + 2 * overtaken + misread

Values ==
  /\ m_stream_type \in {"Audio", "Video"}
  /\ m_status \in [Ends -> {"Started", "Stopped"}] /\ silent \subseteq Ends
  /\ sender \in [Ends -> {"none", "test", "send", "drain", "over"}]
  /\ starter \in [Ends -> {"stream", "buffer", "over"}]
  /\ playback \in [Ends -> {"Started", "Stopped", "Invalid"}]
  /\ m_done_received \in [Ends -> BOOLEAN] /\ unheard \subseteq Ends
  /\ reader \in [Ends -> {"none", "test", "over"}]
  /\ jobs \in [Ends -> Nat]
  /\ lost \in Nat /\ overtaken \in Nat /\ late \in Nat /\ misread \in 0..MaxMisread
  /\ hangups \in 0..MaxHangups
  /\ \A e \in Ends : reader[e] # "none" => starter[e] = "over"
  /\ \A e \in Ends : starter[e] = "stream" => sender[e] = "none"

Counts ==
  /\ m_input_queue \in [Ends -> 0..MaxFrames]
  /\ sent \in [Ends -> 0..(MaxFrames + 2)]
  /\ Recorded + EmptyFrame("initiator") + EmptyFrame("acceptor") <= MaxFrames + 1

WireState(e) == EndInv(net[e], read[e], loaded[e], Number(e), Blame, overtaken)

Flows ==
  /\ net \in [Ends -> SUBSET OnNet] /\ loaded \in [Ends -> Seq(Nat)]
  /\ read \in [Ends -> [at : {"none", "header", "resync", "data"}, info : Infos,
                        got : Seq(OnNet \cup {Nothing})]]
  /\ \A e \in Ends : WireState(e)

IInv == Values /\ Counts /\ Flows

LEMMA OtherEnd ==
  ASSUME NEW e \in Ends
  PROVE  Other(e) \in Ends /\ Other(e) # e /\ Other(Other(e)) = e
BY DEF Ends, Other

LEMMA Bounds ==
  ASSUME Values
  PROVE  /\ MaxFrames \in Nat /\ MaxHangups \in Nat /\ MaxMisread \in Nat
         /\ m_stream_type \in Types /\ FrameSize \in Frames /\ 0 \in Frames
<1>1. MaxAllocation \in Nat /\ 0 < MaxAllocation
  BY SMT DEF MaxAllocation
<1>2. AudioSize \in Frames /\ VideoSize \in Frames /\ 0 \in Frames
  BY <1>1, StreamsAssumption, SMT DEF Frames
<1>3. m_stream_type \in Types
  BY DEF Values, Types
<1>4. MaxFrames \in Nat /\ MaxHangups \in Nat /\ MaxMisread \in Nat
  BY StreamsAssumption DEF MaxFrames
<1> QED BY <1>2, <1>3, <1>4 DEF FrameSize

LEMMA Numbers ==
  ASSUME Values, Counts, NEW e \in Ends
  PROVE  /\ Number(e) \in Nat /\ Blame \in Nat /\ overtaken \in Nat
         /\ Number(e) <= MaxFrames + 3
<1>1. MaxFrames \in Nat /\ Other(e) \in Ends
  BY Bounds, OtherEnd
<1>2. sent[Other(e)] \in 0..(MaxFrames + 2)
  BY <1>1 DEF Counts
<1> QED BY <1>1, <1>2, StreamsAssumption DEF Number, Blame, Values

\* What the invariant says of the types.
LEMMA InvIsTyped == IInv => TypeOK
<1> SUFFICES ASSUME IInv PROVE TypeOK
  OBVIOUS
<1>1. Values /\ Counts /\ Flows
  BY DEF IInv
<1>2. ASSUME NEW e \in Ends
      PROVE  /\ read[e].at \in {"none", "header", "resync", "data"}
             /\ Len(read[e].got) <= Expected(read[e].info)
             /\ read[e].at = "data" <=> Len(read[e].got) < Expected(read[e].info)
             /\ \A i \in DOMAIN loaded[e] : loaded[e][i] \in Corrupt..(MaxFrames + 3)
  <2>1. ReadState(read[e], Number(e)) /\ loaded[e] \in Seq(0..Number(e))
    BY <1>1 DEF Flows, WireState, EndInv
  <2>2. ASSUME NEW i \in DOMAIN loaded[e] PROVE loaded[e][i] \in Corrupt..(MaxFrames + 3)
    <3>1. loaded[e][i] \in 0..Number(e)
      BY <2>1, NoisesFinite
    <3>2. Number(e) \in Nat /\ Number(e) <= MaxFrames + 3 /\ MaxFrames \in Nat
      BY <1>1, Numbers, Bounds
    <3> QED BY <3>1, <3>2 DEF Corrupt
  <2> QED BY <2>1, <2>2 DEF ReadState
<1> QED BY <1>1, <1>2, Zenon DEF TypeOK, Values, Counts

LEMMA InitIInv == Init => IInv
<1> SUFFICES ASSUME Init PROVE IInv
  OBVIOUS
<1>1. Values
  BY StreamsAssumption DEF Init, Values
<1>2. Counts
  <2>1. Recorded = 0 /\ EmptyFrame("initiator") = 0 /\ EmptyFrame("acceptor") = 0
    BY DEF Init, Recorded, EmptyFrame, Ends
  <2> QED BY <1>1, <2>1, Bounds DEF Init, Counts
<1>3. Flows
  <2>1. \A e \in Ends : net[e] = {} /\ loaded[e] = <<>> /\ read[e] = NotReading
    BY DEF Init
  <2>2. Reading("none") = NotReading
    BY DEF Reading, NotReading
  <2>3. /\ ReadState(NotReading, 0) /\ NotReading.got = <<>> /\ ~ Doomed({}, NotReading)
    BY <2>2, Waits
  <2>4. NotReading \in [at : {"none", "header", "resync", "data"}, info : Infos,
                        got : Seq(OnNet \cup {Nothing})]
    BY <2>3 DEF ReadState
  <2>5. EndInv({}, NotReading, <<>>, 0, 0, 0)
    <3>1. Carries({}, 0)
      BY FS_EmptySet DEF Carries
    <3>2. Owed({}, NotReading) = 0
      <4>1. Torn({}) = {}
        BY DEF Torn
      <4>2. Cardinality(Torn({})) = 0
        BY <4>1, FS_EmptySet
      <4> QED BY <2>3, <4>2 DEF Owed
    <3>3. Noises(<<>>) = {} /\ <<>> \in Seq(0..0) /\ Len(<<>>) = 0
      BY DEF Noises
    <3>4. Cardinality(Noises(<<>>)) = 0
      BY <3>3, FS_EmptySet
    <3>5. \A i \in 1..Len(<<>>) : FALSE
      BY <3>3
    <3>6. Once(<<>>) /\ InOrder(<<>>) /\ Fresh({}, <<>>, <<>>) /\ Ordered({}, <<>>, <<>>)
      BY <3>5, Zenon DEF Once, InOrder, Fresh, Ordered
    <3>7. Cardinality(Noises(<<>>)) + Owed({}, NotReading) <= 0
      BY <3>2, <3>4
    <3> QED BY <2>3, <3>1, <3>3, <3>6, <3>7 DEF EndInv
  <2>6. ASSUME NEW e \in Ends PROVE WireState(e)
    <3>1. Number(e) = 0 /\ Blame = 0 /\ overtaken = 0
      BY OtherEnd DEF Init, Number, Blame
    <3> QED BY <2>1, <2>5, <3>1 DEF WireState
  <2>7. net \in [Ends -> SUBSET OnNet] /\ loaded \in [Ends -> Seq(Nat)]
    BY DEF Init
  <2>8. read \in [Ends -> [at : {"none", "header", "resync", "data"}, info : Infos,
                           got : Seq(OnNet \cup {Nothing})]]
    BY <2>4 DEF Init
  <2> QED BY <2>6, <2>7, <2>8 DEF Flows
<1> QED BY <1>1, <1>2, <1>3 DEF IInv

-----------------------------------------------------------------------------
(***************************************************************************)
(* The steps: the values.                                                  *)
(***************************************************************************)
LEMMA StillValues ==
  ASSUME Values,
         UNCHANGED <<m_stream_type, m_status, sender, silent, starter, playback,
                     m_done_received, unheard, reader, jobs, lost, overtaken, late,
                     misread, hangups>>
  PROVE  Values'
BY DEF Values

\* What send_package does but for the datagrams.
LEMMA SendValues ==
  ASSUME Values, NEW e \in Ends, NEW type, NEW size, Send(e, type, size)
  PROVE  lost' \in Nat /\ lost <= lost' /\ silent' \subseteq Ends
BY DEF Send, Values

\* What taking a datagram, or waiting for one in vain, does.
LEMMA TakeValues ==
  ASSUME Values, NEW e, (\E d : Take(e, d)) \/ TimedOut(e)
  PROVE  /\ overtaken' \in Nat /\ overtaken <= overtaken'
         /\ TimedOut(e) => late' \in Nat /\ UNCHANGED <<net, lost, overtaken, unheard>>
<1>1. ASSUME NEW d, Take(e, d) PROVE overtaken' \in Nat /\ overtaken <= overtaken'
  BY <1>1 DEF Take, Values
<1>2. ASSUME TimedOut(e)
      PROVE  /\ overtaken' \in Nat /\ overtaken <= overtaken' /\ late' \in Nat
             /\ UNCHANGED <<net, lost, overtaken, unheard>>
  BY <1>2 DEF TimedOut, wire, Values
<1> QED BY <1>1, <1>2

LEMMA LoadValues ==
  ASSUME Values, NEW e \in Ends, NEW info, NEW got,
         load(e, info, got) \/ stop(e) \/ UNCHANGED playback
  PROVE  playback' \in [Ends -> {"Started", "Stopped", "Invalid"}]
BY DEF load, stop, Values

LEMMA StepValues ==
  ASSUME Values, [Next]_vars
  PROVE  Values' /\ UNCHANGED m_stream_type
<1>1. CASE UNCHANGED vars
  BY <1>1, StillValues DEF vars, stream, play, wire
<1>2. ASSUME NEW e \in Ends, Starts(e) PROVE Values' /\ UNCHANGED m_stream_type
  <2>1. CASE StartStream(e)
    BY <2>1 DEF StartStream, wire, Values
  <2>2. CASE StartPlayback(e)
    <3>1. /\ playback' \in [Ends -> {"Started", "Stopped", "Invalid"}]
          /\ m_done_received' \in [Ends -> BOOLEAN]
          /\ reader' \in [Ends -> {"none", "test", "over"}]
          /\ reader' = [reader EXCEPT ![e] = "test"] \/ reader' = reader
      BY <2>2 DEF StartPlayback, Values
    <3>2. /\ starter' = [starter EXCEPT ![e] = "over"]
          /\ UNCHANGED <<stream, jobs, wire, misread, late, hangups>>
      BY <2>2 DEF StartPlayback
    <3> QED BY <3>1, <3>2 DEF stream, wire, Values
  <2> QED BY <1>2, <2>1, <2>2 DEF Starts
<1>3. ASSUME NEW e \in Ends, SenderTest(e) PROVE Values' /\ UNCHANGED m_stream_type
  BY <1>3 DEF SenderTest, play, wire, Values
<1>4. ASSUME NEW e \in Ends, Record(e) PROVE Values' /\ UNCHANGED m_stream_type
  BY <1>4, StillValues DEF Record, play, wire
<1>5. ASSUME NEW e \in Ends, SendFrame(e) PROVE Values' /\ UNCHANGED m_stream_type
  <2>1. lost' \in Nat /\ silent' \subseteq Ends
    BY <1>5, SendValues DEF SendFrame
  <2> QED BY <1>5, <2>1 DEF SendFrame, play, Values
<1>6. ASSUME NEW e \in Ends, SenderDone(e) PROVE Values' /\ UNCHANGED m_stream_type
  <2>1. lost' \in Nat /\ silent' \subseteq Ends /\ unheard' \subseteq Ends
    <3>1. Send(e, "Done", 0) /\ (unheard' = unheard \/ unheard' = unheard \cup {e})
      BY <1>6 DEF SenderDone, send_done
    <3>2. unheard' \subseteq Ends
      BY <3>1 DEF Values
    <3> QED BY <3>1, <3>2, SendValues
  <2> QED BY <1>6, <2>1 DEF SenderDone, play, Values
<1>7. ASSUME NEW e \in Ends, Lose(e) PROVE Values' /\ UNCHANGED m_stream_type
  <2>1. lost' \in Nat /\ unheard' \subseteq Ends
    BY <1>7, OtherEnd DEF Lose, Values
  <2> QED BY <1>7, <2>1 DEF Lose, stream, play, Values
<1>8. ASSUME NEW e \in Ends, ReadShort(e) PROVE Values' /\ UNCHANGED m_stream_type
  <2>1. overtaken' \in Nat
    BY <1>8, TakeValues DEF ReadShort
  <2> QED BY <1>8, <2>1 DEF ReadShort, stream, Values
<1>9. ASSUME NEW e \in Ends, ReadHeader(e) PROVE Values' /\ UNCHANGED m_stream_type
  <2>1. PICK d \in net[e] :
          /\ Take(e, d) /\ UNCHANGED lost
          /\ \E info \in HeaderRead(d, Garbage) :
               /\ misread' = misread \/ misread' = misread + 1
               /\ misread' <= MaxMisread
               /\ unheard' = unheard \/ unheard' = unheard \cup {Other(e)}
               /\ load(e, info, <<>>) \/ stop(e) \/ UNCHANGED playback
               /\ m_done_received' = [m_done_received EXCEPT ![e] = TRUE]
                    \/ UNCHANGED m_done_received
    BY <1>9 DEF ReadHeader
  <2>2. overtaken' \in Nat
    BY <2>1, TakeValues
  <2>3. playback' \in [Ends -> {"Started", "Stopped", "Invalid"}]
    BY <2>1, LoadValues
  <2>4. misread' \in 0..MaxMisread /\ unheard' \subseteq Ends
    BY <2>1, OtherEnd, Bounds DEF Values
  <2>5. m_done_received' \in [Ends -> BOOLEAN]
    BY <2>1 DEF Values
  <2>6. UNCHANGED <<stream, reader, starter, jobs, late, hangups>> /\ UNCHANGED lost
    BY <1>9, <2>1 DEF ReadHeader
  <2> QED BY <2>2, <2>3, <2>4, <2>5, <2>6 DEF stream, Values
<1>10. ASSUME NEW e \in Ends, ReadNothing(e) PROVE Values' /\ UNCHANGED m_stream_type
  <2>1. late' \in Nat /\ UNCHANGED <<lost, overtaken, unheard>>
    BY <1>10, TakeValues DEF ReadNothing
  <2> QED BY <1>10, <2>1 DEF ReadNothing, stream, Values
<1>11. ASSUME NEW e \in Ends, ReadData(e) PROVE Values' /\ UNCHANGED m_stream_type
  <2>1. PICK d \in net[e] :
          /\ Take(e, d) /\ Received(e, d)
          /\ unheard' = unheard \/ unheard' = unheard \cup {Other(e)}
    BY <1>11 DEF ReadData
  <2>2. overtaken' \in Nat /\ unheard' \subseteq Ends
    BY <2>1, TakeValues, OtherEnd DEF Values
  <2>3. playback' \in [Ends -> {"Started", "Stopped", "Invalid"}]
    BY <2>1, LoadValues DEF Received
  <2> QED BY <1>11, <2>2, <2>3 DEF ReadData, stream, Values
<1>12. ASSUME NEW e \in Ends, ReadNoData(e) PROVE Values' /\ UNCHANGED m_stream_type
  <2>1. late' \in Nat /\ UNCHANGED <<lost, overtaken, unheard>>
    BY <1>12, TakeValues DEF ReadNoData
  <2>2. playback' \in [Ends -> {"Started", "Stopped", "Invalid"}]
    BY <1>12, LoadValues DEF ReadNoData, Received
  <2> QED BY <1>12, <2>1, <2>2 DEF ReadNoData, stream, Values
<1>13. ASSUME NEW e \in Ends, ReaderLoop(e) PROVE Values' /\ UNCHANGED m_stream_type
  BY <1>13 DEF ReaderLoop, stream, wire, Values
<1>14. ASSUME NEW e \in Ends, UserHangsUp(e) PROVE Values' /\ UNCHANGED m_stream_type
  <2>1. jobs' \in [Ends -> Nat] /\ hangups' \in 0..MaxHangups
    BY <1>14, Bounds DEF UserHangsUp, Values
  <2> QED BY <1>14, <2>1 DEF UserHangsUp, stream, play, wire, Values
<1>15. ASSUME NEW e \in Ends, hangup(e) PROVE Values' /\ UNCHANGED m_stream_type
  <2>1. playback' \in [Ends -> {"Started", "Stopped", "Invalid"}]
    BY <1>15, LoadValues DEF hangup
  <2>2. jobs' \in [Ends -> Nat] /\ m_status' \in [Ends -> {"Started", "Stopped"}]
    BY <1>15 DEF hangup, Values
  <2> QED BY <1>15, <2>1, <2>2 DEF hangup, wire, Values
<1> QED
  BY <1>1, <1>2, <1>3, <1>4, <1>5, <1>6, <1>7, <1>8, <1>9, <1>10, <1>11, <1>12, <1>13,
     <1>14, <1>15
     DEF Next, Sends, Reads, vars, stream

-----------------------------------------------------------------------------
(***************************************************************************)
(* The steps: the frames.  One recorded stays one recorded until it is     *)
(* sent, and an end decides to send without one only while the bound       *)
(* leaves room.                                                            *)
(***************************************************************************)
LEMMA StillCounts ==
  ASSUME Values, Counts, UNCHANGED <<m_stream_type, m_input_queue, sent>>,
         \A e \in Ends : sender'[e] = "send" => sender[e] = "send"
  PROVE  Counts'
<1>1. Recorded' = Recorded /\ MaxFrames' = MaxFrames
  BY DEF Recorded, MaxFrames
<1>2. \A e \in Ends : EmptyFrame(e)' <= EmptyFrame(e) /\ EmptyFrame(e) \in {0, 1}
                        /\ EmptyFrame(e)' \in {0, 1}
  BY DEF EmptyFrame
<1>3. Recorded \in Int
  BY DEF Counts, Recorded, Ends
<1>4. "initiator" \in Ends /\ "acceptor" \in Ends
  BY DEF Ends
<1>5. MaxFrames \in Nat
  BY Bounds
<1> HIDE DEF Recorded, EmptyFrame, MaxFrames
<1>6. Recorded' + EmptyFrame("initiator")' + EmptyFrame("acceptor")' <= MaxFrames + 1
  BY <1>1, <1>2, <1>3, <1>4, <1>5 DEF Counts
<1> QED BY <1>1, <1>6 DEF Counts

LEMMA StepCounts ==
  ASSUME Values, Counts, [Next]_vars
  PROVE  Counts'
<1>m. MaxFrames \in Nat /\ MaxFrames' = MaxFrames
  <2>1. UNCHANGED m_stream_type
    BY StepValues
  <2> QED BY <2>1, Bounds DEF MaxFrames
<1> HIDE DEF MaxFrames
<1>0. /\ "initiator" \in Ends /\ "acceptor" \in Ends
      /\ \A e \in Ends : /\ m_input_queue[e] \in Nat /\ sent[e] \in Nat
                         /\ m_input_queue[e] <= MaxFrames
                         /\ EmptyFrame(e) \in {0, 1} /\ EmptyFrame(e)' \in {0, 1}
  BY <1>m DEF Ends, Counts, EmptyFrame
<1>1. ASSUME NEW e \in Ends, Record(e) PROVE Counts'
  <2>1. /\ Recorded < MaxFrames /\ m_input_queue' = [m_input_queue EXCEPT ![e] = @ + 1]
        /\ sent' = sent /\ sender' = sender
    BY <1>1 DEF Record
  <2>2. m_input_queue[e] < MaxFrames
    BY <1>m, <1>0, <2>1 DEF Recorded, Ends
  <2>3. m_input_queue' \in [Ends -> 0..MaxFrames]
    BY <1>m, <1>0, <2>1, <2>2 DEF Counts
  <2>4. Recorded' = Recorded + 1 /\ Recorded \in Nat
    BY <1>0, <2>1 DEF Recorded, Ends, Counts
  <2>5. EmptyFrame(e)' = 0
    BY <1>0, <2>1 DEF EmptyFrame, Counts
  <2>6. Recorded' + EmptyFrame("initiator")' + EmptyFrame("acceptor")' <= MaxFrames + 1
    <3> HIDE DEF Recorded, EmptyFrame
    <3> QED BY <1>m, <1>0, <2>1, <2>4, <2>5 DEF Ends
  <2> QED BY <1>m, <2>1, <2>3, <2>6 DEF Counts
<1>2. ASSUME NEW e \in Ends, SenderTest(e) PROVE Counts'
  <2>1. UNCHANGED <<m_stream_type, m_input_queue, sent>> /\ Recorded' = Recorded
    BY <1>2 DEF SenderTest, Recorded
  <2>2. CASE sender' = [sender EXCEPT ![e] = "drain"]
    <3>1. \A d \in Ends : sender'[d] = "send" => sender[d] = "send"
      BY <2>2 DEF Values
    <3> QED BY <2>1, <3>1, StillCounts
  <2>3. CASE /\ Recorded < MaxFrames \/ m_input_queue[e] > 0
             /\ sender' = [sender EXCEPT ![e] = "send"]
    <3>1. \A d \in Ends : d # e => EmptyFrame(d)' = EmptyFrame(d)
      BY <2>1, <2>3 DEF EmptyFrame, Values
    <3>2. m_input_queue[e] > 0 => EmptyFrame(e)' = 0
      BY <2>1 DEF EmptyFrame
    <3>3. Recorded + EmptyFrame("initiator") + EmptyFrame("acceptor") <= MaxFrames + 1
      BY DEF Counts
    <3>4. Recorded \in Nat
      BY <1>0 DEF Recorded
    <3>5. Recorded' + EmptyFrame("initiator")' + EmptyFrame("acceptor")' <= MaxFrames + 1
      <4> HIDE DEF Recorded, EmptyFrame
      <4>1. CASE m_input_queue[e] > 0
        BY <1>m, <1>0, <2>1, <3>1, <3>2, <3>3, <3>4, <4>1 DEF Ends
      <4>2. CASE Recorded < MaxFrames
        BY <1>m, <1>0, <2>1, <3>4, <4>2
      <4> QED BY <2>3, <4>1, <4>2
    <3> QED BY <1>m, <2>1, <3>5 DEF Counts
  <2> QED BY <1>2, <2>2, <2>3 DEF SenderTest
<1>3. ASSUME NEW e \in Ends, SendFrame(e) PROVE Counts'
  <2>1. /\ sent' = sent \/ sent' = [sent EXCEPT ![e] = @ + 1]
        /\ sender' = [sender EXCEPT ![e] = IF @ = "send" THEN "test" ELSE @]
        /\ sender[e] \in {"send", "drain"}
        /\ sender[e] = "drain" => m_input_queue[e] # 0
        /\ \/ /\ m_input_queue[e] > 0
              /\ m_input_queue' = [m_input_queue EXCEPT ![e] = @ - 1]
           \/ m_input_queue[e] = 0 /\ UNCHANGED m_input_queue
    BY <1>3 DEF SendFrame, drained
  <2>2. \A d \in Ends : d # e => EmptyFrame(d)' = EmptyFrame(d)
    BY <2>1 DEF EmptyFrame, Values, Counts
  <2>3. EmptyFrame(e)' = 0
    BY <2>1 DEF EmptyFrame, Values
  <2>4. m_input_queue' \in [Ends -> 0..MaxFrames]
    BY <1>m, <1>0, <2>1 DEF Counts
  <2>5. /\ Recorded \in Nat
        /\ Recorded + EmptyFrame("initiator") + EmptyFrame("acceptor") <= MaxFrames + 1
    BY <1>0 DEF Recorded, Counts
  <2>6. /\ Recorded' \in Nat
        /\ Recorded' <= Recorded + IF m_input_queue[e] > 0 THEN 0 ELSE 1
    <3>1. CASE m_input_queue[e] > 0
      BY <1>0, <2>1, <3>1 DEF Recorded, Ends, Counts
    <3>2. CASE ~ (m_input_queue[e] > 0)
      BY <1>0, <2>1, <3>2 DEF Recorded, Ends, Counts
    <3> QED BY <3>1, <3>2
  <2>7. m_input_queue[e] = 0 => EmptyFrame(e) = 1
    BY <2>1 DEF EmptyFrame
  <2>8. Recorded' + EmptyFrame("initiator")' + EmptyFrame("acceptor")' <= MaxFrames + 1
    <3> HIDE DEF Recorded, EmptyFrame
    <3>1. CASE m_input_queue[e] > 0
      BY <1>m, <1>0, <2>2, <2>3, <2>5, <2>6, <3>1 DEF Ends
    <3>2. CASE m_input_queue[e] = 0
      BY <1>m, <1>0, <2>2, <2>3, <2>5, <2>6, <2>7, <3>2 DEF Ends
    <3> QED BY <1>0, <3>1, <3>2
  <2>9. sent[e] + 1 <= MaxFrames + 2
    <3>1. sent[e] + m_input_queue[e] <= Recorded
      BY <1>0 DEF Recorded, Ends
    <3> HIDE DEF Recorded, EmptyFrame
    <3>2. Recorded <= MaxFrames + 1
      BY <1>m, <1>0, <2>5
    <3>3. CASE m_input_queue[e] > 0
      BY <1>m, <1>0, <2>5, <3>1, <3>2, <3>3
    <3>4. CASE m_input_queue[e] = 0
      BY <1>m, <1>0, <2>5, <2>7, <3>1, <3>4 DEF Ends
    <3> QED BY <1>0, <3>3, <3>4
  <2>10. sent' \in [Ends -> 0..(MaxFrames + 2)]
    BY <1>m, <1>0, <2>1, <2>9 DEF Counts
  <2> QED BY <1>m, <2>4, <2>8, <2>10 DEF Counts
<1>4. ASSUME NEW e \in Ends, Starts(e) \/ SenderDone(e) PROVE Counts'
  <2>1. /\ UNCHANGED <<m_stream_type, m_input_queue, sent>>
        /\ \A d \in Ends : sender'[d] = "send" => sender[d] = "send"
    BY <1>4 DEF Starts, StartStream, StartPlayback, SenderDone, stream, Values
  <2> QED BY <2>1, StillCounts
<1>5. ASSUME NEW e \in Ends, Reads(e) \/ Lose(e) \/ hangup(e) \/ UserHangsUp(e) PROVE Counts'
  <2>1. UNCHANGED <<m_stream_type, m_input_queue, sent, sender>>
    BY <1>5 DEF Reads, ReadShort, ReadHeader, ReadNothing, ReadData, ReadNoData,
                ReaderLoop, Lose, hangup, UserHangsUp, stream
  <2> QED BY <2>1, StillCounts
<1>6. CASE UNCHANGED vars
  BY <1>6, StillCounts DEF vars, stream
<1> QED BY <1>1, <1>2, <1>3, <1>4, <1>5, <1>6 DEF Next, Sends

-----------------------------------------------------------------------------
(***************************************************************************)
(* The steps: what is sent, what arrives and what is loaded.               *)
(***************************************************************************)

LEMMA WeightsAddUp ==
  ASSUME NEW a \in Nat, NEW b \in Nat, NEW c \in Nat,
         NEW x \in Nat, NEW y \in Nat, NEW z \in Nat, a <= x, b <= y, c <= z
  PROVE  a + 2 * b + c \in Nat /\ a + 2 * b + c <= x + 2 * y + z
OBVIOUS

\* No step takes back a fault or a frame that was sent.
LEMMA StepGrows ==
  ASSUME Values, Counts, [Next]_vars
  PROVE  /\ lost <= lost' /\ overtaken <= overtaken' /\ misread <= misread'
         /\ Blame \in Nat /\ Blame' \in Nat /\ Blame <= Blame'
         /\ overtaken \in Nat /\ overtaken' \in Nat
         /\ \A x \in Ends : /\ Number(x) \in Nat /\ Number(x)' \in Nat
                            /\ Number(x) <= Number(x)'
<1>0. Values' /\ Counts' /\ m_stream_type' = m_stream_type
  BY StepValues, StepCounts
<1>1. lost <= lost' /\ overtaken <= overtaken' /\ misread <= misread'
  <2>0. lost \in Nat /\ overtaken \in Nat /\ misread \in Nat
    BY Bounds DEF Values
  <2>1. ASSUME NEW e \in Ends, Starts(e) \/ SenderTest(e) \/ Record(e) \/ hangup(e)
                                 \/ UserHangsUp(e) \/ ReaderLoop(e)
        PROVE  UNCHANGED <<lost, overtaken, misread>>
    BY <2>1 DEF Starts, StartStream, StartPlayback, SenderTest, Record, hangup,
                UserHangsUp, ReaderLoop, wire
  <2>2. ASSUME NEW e \in Ends, SendFrame(e) \/ SenderDone(e)
        PROVE  lost <= lost' /\ UNCHANGED <<overtaken, misread>>
    <3>1. CASE SendFrame(e)
      BY <3>1, SendValues DEF SendFrame
    <3>2. CASE SenderDone(e)
      BY <3>2, SendValues DEF SenderDone, send_done
    <3> QED BY <2>2, <3>1, <3>2
  <2>3. ASSUME NEW e \in Ends, Lose(e)
        PROVE  lost <= lost' /\ UNCHANGED <<overtaken, misread>>
    BY <2>0, <2>3 DEF Lose
  <2>4. ASSUME NEW e \in Ends, ReadShort(e) \/ ReadData(e)
        PROVE  overtaken <= overtaken' /\ UNCHANGED <<lost, misread>>
    <3>1. CASE ReadShort(e)
      BY <3>1, TakeValues DEF ReadShort
    <3>2. CASE ReadData(e)
      BY <3>2, TakeValues DEF ReadData
    <3> QED BY <2>4, <3>1, <3>2
  <2>5. ASSUME NEW e \in Ends, ReadHeader(e)
        PROVE  overtaken <= overtaken' /\ misread <= misread' /\ UNCHANGED lost
    <3>1. PICK d \in net[e] :
            /\ Take(e, d) /\ UNCHANGED lost
            /\ misread' = misread \/ misread' = misread + 1
      BY <2>5 DEF ReadHeader
    <3> QED BY <2>0, <3>1, TakeValues
  <2>6. ASSUME NEW e \in Ends, ReadNothing(e) \/ ReadNoData(e)
        PROVE  UNCHANGED <<lost, overtaken, misread>>
    BY <2>6, TakeValues DEF ReadNothing, ReadNoData
  <2>7. CASE UNCHANGED vars
    BY <2>0, <2>7 DEF vars, wire
  <2> QED BY <2>0, <2>1, <2>2, <2>3, <2>4, <2>5, <2>6, <2>7 DEF Next, Sends, Reads
<1>2. /\ misread \in Nat /\ lost \in Nat /\ overtaken \in Nat
      /\ misread' \in Nat /\ lost' \in Nat /\ overtaken' \in Nat
  BY <1>0, StreamsAssumption DEF Values
<1>3. Blame \in Nat /\ Blame' \in Nat /\ Blame <= Blame'
  <2>0. \A i \in Nat : i <= i
    OBVIOUS
  <2>1. lost + 2 * overtaken + misread \in Nat
    BY <1>2, <2>0, WeightsAddUp, Zenon
  <2>2. lost' + 2 * overtaken' + misread' \in Nat
    BY <1>2, <2>0, WeightsAddUp, Zenon
  <2>3. lost + 2 * overtaken + misread <= lost' + 2 * overtaken' + misread'
    BY <1>1, <1>2, WeightsAddUp
  <2> QED BY <2>1, <2>2, <2>3, Zenon DEF Blame
<1>4. ASSUME NEW e \in Ends
      PROVE  /\ sent[e] \in Nat /\ sent'[e] \in Nat /\ sent[e] <= sent'[e]
             /\ sender[e] = "over" => sender'[e] = "over"
  <2>0. MaxFrames \in Nat /\ MaxFrames' \in Nat
    <3>1. MaxFrames' = MaxFrames
      BY <1>0 DEF MaxFrames
    <3> QED BY <3>1, Bounds
  <2>1. sent[e] \in Nat /\ sent'[e] \in Nat
    BY <1>0, <2>0 DEF Counts
  <2>2. ASSUME UNCHANGED sent PROVE sent[e] <= sent'[e]
    BY <2>1, <2>2
  <2>3. ASSUME NEW d \in Ends, SendFrame(d) PROVE sent[e] <= sent'[e]
    <3>1. sent' = sent \/ sent' = [sent EXCEPT ![d] = @ + 1]
      BY <2>3 DEF SendFrame
    <3> QED BY <2>1, <3>1 DEF Counts
  <2>4. ASSUME NEW d \in Ends, ~ SendFrame(d),
               Starts(d) \/ Sends(d) \/ Reads(d) \/ Record(d) \/ Lose(d) \/ hangup(d)
                 \/ UserHangsUp(d)
        PROVE  UNCHANGED sent
    BY <2>4 DEF Starts, StartStream, StartPlayback, Sends, SenderTest, SenderDone, Reads,
                ReadShort, ReadHeader, ReadNothing, ReadData, ReadNoData, ReaderLoop,
                Record, Lose, hangup, UserHangsUp, stream
  <2>5. sent[e] <= sent'[e]
    BY <2>1, <2>2, <2>3, <2>4 DEF Next, vars, stream
  <2>6. ASSUME sender[e] = "over" PROVE sender'[e] = "over"
    <3>1. ASSUME NEW d \in Ends, StartStream(d) PROVE sender'[e] = "over"
      BY <2>6, <3>1 DEF StartStream, Values
    <3>2. ASSUME NEW d \in Ends, Sends(d) PROVE sender'[e] = "over"
      BY <2>6, <3>2 DEF Sends, SenderTest, SendFrame, SenderDone, Values
    <3>3. ASSUME NEW d \in Ends, StartPlayback(d) \/ Reads(d) \/ Record(d) \/ Lose(d)
                                   \/ hangup(d) \/ UserHangsUp(d)
          PROVE  sender' = sender
      BY <3>3 DEF StartPlayback, Reads, ReadShort, ReadHeader, ReadNothing, ReadData,
                  ReadNoData, ReaderLoop, Record, Lose, hangup, UserHangsUp, stream
    <3>4. UNCHANGED vars => sender' = sender
      BY DEF vars, stream
    <3> QED BY <2>6, <3>1, <3>2, <3>3, <3>4 DEF Next, Starts
  <2> QED BY <2>1, <2>5, <2>6
<1>5. ASSUME NEW x \in Ends
      PROVE  Number(x) \in Nat /\ Number(x)' \in Nat /\ Number(x) <= Number(x)'
  <2>1. Other(x) \in Ends
    BY OtherEnd
  <2> QED BY <1>4, <2>1 DEF Number
<1> QED BY <1>1, <1>2, <1>3, <1>5

\* An end to which nothing is sent and that takes nothing.
LEMMA EndStays ==
  ASSUME Values, Counts, [Next]_vars, NEW x \in Ends, WireState(x),
         net'[x] = net[x], loaded'[x] = loaded[x],
         read'[x] = read[x] \/ \E at \in {"none", "header", "resync"} : read'[x] = Reading(at)
  PROVE  WireState(x)'
<1>1. /\ Number(x) \in Nat /\ Number(x)' \in Nat /\ Number(x) <= Number(x)'
      /\ Blame \in Nat /\ Blame' \in Nat /\ Blame <= Blame'
      /\ overtaken \in Nat /\ overtaken' \in Nat /\ overtaken <= overtaken'
  BY StepGrows
<1>2. EndInv(net[x], read[x], loaded[x], Number(x), Blame, overtaken)
  BY DEF WireState
<1> DEFINE n2 == Number(x)'
           k2 == Blame'
<1> HIDE DEF n2, k2
<1>3. n2 \in Nat /\ k2 \in Nat /\ Number(x) <= n2 /\ Blame <= k2
  BY <1>1 DEF n2, k2
<1>4. EndInv(net[x], read'[x], loaded[x], n2, k2, overtaken')
  BY <1>1, <1>2, <1>3, StillInv
<1> QED BY <1>4 DEF WireState, n2, k2

LEMMA StillFlows ==
  ASSUME Values, Counts, Flows, [Next]_vars, UNCHANGED <<net, loaded>>, NEW e \in Ends,
         \/ read' = read
         \/ \E at \in {"none", "header", "resync"} : read' = [read EXCEPT ![e] = Reading(at)]
  PROVE  Flows'
<1>1. ASSUME NEW x \in Ends
      PROVE  \/ read'[x] = read[x]
             \/ \E at \in {"none", "header", "resync"} : read'[x] = Reading(at)
  BY DEF Flows
<1>2. ASSUME NEW x \in Ends PROVE WireState(x)'
  BY <1>1, EndStays DEF Flows
<1>3. \A at \in {"none", "header", "resync"} :
        Reading(at) \in [at : {"none", "header", "resync", "data"}, info : Infos,
                         got : Seq(OnNet \cup {Nothing})]
  BY Waits DEF ReadState
<1>4. read' \in [Ends -> [at : {"none", "header", "resync", "data"}, info : Infos,
                          got : Seq(OnNet \cup {Nothing})]]
  BY <1>3 DEF Flows
<1> QED BY <1>2, <1>4 DEF Flows

\* One end takes, loads or is sent something; the other stays as it is.
LEMMA OneEndFlows ==
  ASSUME Values, Counts, Flows, [Next]_vars, NEW e \in Ends,
         NEW N, NEW r, NEW L, net' = [net EXCEPT ![e] = N],
         read' = [read EXCEPT ![e] = r], loaded' = [loaded EXCEPT ![e] = L],
         EndInv(N, r, L, Number(e)', Blame', overtaken')
  PROVE  Flows'
<1> DEFINE n2 == Number(e)'
           k2 == Blame'
<1>1. n2 \in Nat
  BY StepGrows
<1>2. N \subseteq OnNet /\ ReadState(r, n2) /\ L \in Seq(0..n2)
  BY DEF EndInv, Carries
<1> HIDE DEF n2, k2
<1>3. L \in Seq(Nat)
  BY <1>1, <1>2, SeqOfNat
<1>4. r \in [at : {"none", "header", "resync", "data"}, info : Infos,
             got : Seq(OnNet \cup {Nothing})]
  BY <1>2 DEF ReadState
<1>5. /\ net' \in [Ends -> SUBSET OnNet] /\ loaded' \in [Ends -> Seq(Nat)]
      /\ read' \in [Ends -> [at : {"none", "header", "resync", "data"}, info : Infos,
                             got : Seq(OnNet \cup {Nothing})]]
  BY <1>2, <1>3, <1>4 DEF Flows
<1>6. ASSUME NEW x \in Ends PROVE WireState(x)'
  <2>1. CASE x = e
    <3>1. net'[e] = N /\ read'[e] = r /\ loaded'[e] = L
      BY DEF Flows
    <3> QED BY <2>1, <3>1 DEF WireState
  <2>2. CASE x # e
    <3>1. net'[x] = net[x] /\ read'[x] = read[x] /\ loaded'[x] = loaded[x] /\ WireState(x)
      BY <2>2 DEF Flows
    <3> QED BY <3>1, EndStays
  <2> QED BY <2>1, <2>2
<1> QED BY <1>5, <1>6 DEF Flows

\* send_package.  The header of a frame that is sent is on the network.
LEMMA SendFlows ==
  ASSUME Values, Counts, Flows, [Next]_vars, NEW e \in Ends, NEW type \in Types,
         NEW s \in Frames, Send(e, type, s), sender[e] # "over",
         UNCHANGED <<read, loaded, overtaken, misread>>,
         net' # net => Number(Other(e))' = Number(Other(e)) + 1
  PROVE  Flows'
<1> DEFINE t == Other(e)
           D == respond(type, sent[e] + 1, s)
<1>1. t \in Ends /\ Other(t) = e
  BY OtherEnd
<1>2. Number(t) = sent[e] /\ Number(t) \in Nat /\ Blame \in Nat
  <2>1. sent[e] \in Nat
    BY Bounds DEF Counts
  <2> QED BY <1>1, <2>1, Numbers DEF Number
<1> HIDE DEF t, D
<1>3. CASE net' = net
  BY <1>1, <1>3, StillFlows
<1>4. ASSUME net' # net, NEW X, net' = [net EXCEPT ![t] = net[t] \cup X],
             SentFor(X, sent[e] + 1, type, s), X = D \/ lost' = lost + 1
      PROVE  Flows'
  <2>1. EndInv(net[t], read[t], loaded[t], Number(t), Blame, overtaken)
    BY <1>1 DEF Flows, WireState
  <2>2. /\ Blame' \in Nat /\ Blame <= Blame'
        /\ X = D \/ Blame + 1 <= Blame'
    <3>1. Blame' \in Nat /\ Blame <= Blame'
      BY StepGrows
    <3>2. lost' = lost + 1 => Blame + 1 <= Blame'
      <4>1. lost \in Nat /\ misread \in Nat /\ overtaken \in Nat
        BY StreamsAssumption DEF Values
      <4> QED BY <4>1 DEF Blame
    <3> QED BY <1>4, <3>1, <3>2
  <2> DEFINE k2 == Blame'
  <2> HIDE DEF k2
  <2>3. EndInv(net[t] \cup X, read[t], loaded[t], Number(t) + 1, k2, overtaken)
    <3>1. SentFor(X, Number(t) + 1, type, s)
      BY <1>2, <1>4
    <3>2. X = respond(type, Number(t) + 1, s) \/ Blame + 1 <= k2
      BY <1>2, <2>2 DEF D, k2
    <3>3. k2 \in Nat /\ Blame <= k2
      BY <2>2 DEF k2
    <3> QED BY <2>1, <3>1, <3>2, <3>3, SentInv
  <2>4. EndInv(net[t] \cup X, read[t], loaded[t], Number(t)', Blame', overtaken')
    BY <1>4, <2>3 DEF k2, t
  <2>5. read' = [read EXCEPT ![t] = read[t]] /\ loaded' = [loaded EXCEPT ![t] = loaded[t]]
    BY DEF Flows
  <2> DEFINE N == net[t] \cup X
             r == read[t]
             L == loaded[t]
  <2>6. /\ net' = [net EXCEPT ![t] = N] /\ read' = [read EXCEPT ![t] = r]
        /\ loaded' = [loaded EXCEPT ![t] = L]
    BY <1>4, <2>5
  <2>7. EndInv(N, r, L, Number(t)', Blame', overtaken')
    BY <2>4
  <2> HIDE DEF N, r, L
  <2> QED BY <1>1, <2>6, <2>7, OneEndFlows
<1>5. \/ net' = net
      \/ net' = [net EXCEPT ![t] = net[t] \cup D]
      \/ \E d \in D : /\ ~ IsHeader(d) /\ net' = [net EXCEPT ![t] = net[t] \cup (D \ {d})]
                      /\ lost' = lost + 1
  BY DEF Send, t, D
<1>6. ASSUME net' # net, net' = [net EXCEPT ![t] = net[t] \cup D] PROVE Flows'
  <2>1. SentFor(D, sent[e] + 1, type, s)
    BY DEF SentFor, D
  <2> QED BY <1>4, <1>6, <2>1
<1>7. ASSUME net' # net, NEW d \in D, ~ IsHeader(d), lost' = lost + 1,
             net' = [net EXCEPT ![t] = net[t] \cup (D \ {d})]
      PROVE  Flows'
  <2>1. SentFor(D \ {d}, sent[e] + 1, type, s)
    BY <1>7 DEF SentFor, D
  <2> QED BY <1>4, <1>7, <2>1
<1> QED BY <1>3, <1>5, <1>6, <1>7

LEMMA WeightsDiffer ==
  ASSUME NEW l \in Nat, NEW o \in Nat, NEW m \in Nat, NEW p \in Nat, NEW q \in Nat,
         o <= p, m <= q
  PROVE  /\ p = o + 1 => l + 2 * o + m + 2 <= l + 2 * p + q /\ p # 0
         /\ q = m + 1 => l + 2 * o + m + 1 <= l + 2 * p + q
         /\ q = m + 1 /\ p = o + 1 => l + 2 * o + m + 3 <= l + 2 * p + q
OBVIOUS

\* A datagram is taken: what is to be shown of the end that takes it.
LEMMA TakeFlows ==
  ASSUME Values, Counts, Flows, [Next]_vars, NEW e \in Ends, NEW d \in net[e], Take(e, d),
         UNCHANGED lost
  PROVE  /\ EndInv(net[e], read[e], loaded[e], Number(e)', Blame, overtaken)
         /\ Number(e)' \in Nat /\ Blame \in Nat /\ overtaken \in Nat
         /\ Blame' \in Nat /\ Blame <= Blame' /\ overtaken' \in Nat /\ overtaken <= overtaken'
         /\ IsEarly(net[e], d) => Blame + 2 <= Blame' /\ overtaken' # 0
         /\ misread' = misread + 1 => Blame + 1 <= Blame'
         /\ misread' = misread + 1 /\ IsEarly(net[e], d) => Blame + 3 <= Blame'
         /\ net' = [net EXCEPT ![e] = net[e] \ {d}]
<1> DEFINE n2 == Number(e)'
<1>1. /\ Number(e) \in Nat /\ n2 \in Nat /\ Number(e) <= n2
      /\ Blame \in Nat /\ Blame' \in Nat /\ Blame <= Blame' /\ misread <= misread'
      /\ overtaken \in Nat /\ overtaken' \in Nat /\ overtaken <= overtaken'
  BY StepGrows
<1>2. lost \in Nat /\ misread \in Nat /\ misread' \in Nat
  <2>1. Values'
    BY StepValues
  <2> QED BY <2>1, StreamsAssumption DEF Values
<1> HIDE DEF n2
<1>3. EndInv(net[e], read[e], loaded[e], n2, Blame, overtaken)
  <2>1. EndInv(net[e], read[e], loaded[e], Number(e), Blame, overtaken)
    BY DEF Flows, WireState
  <2>2. Blame <= Blame /\ overtaken <= overtaken
    BY <1>1
  <2> QED BY <1>1, <2>1, <2>2, StillInv
<1>4. /\ overtaken' = IF IsEarly(net[e], d) THEN overtaken + 1 ELSE overtaken
      /\ net' = [net EXCEPT ![e] = net[e] \ {d}]
  BY DEF Take, Early, IsEarly
<1>5. Blame = lost + 2 * overtaken + misread /\ Blame' = lost' + 2 * overtaken' + misread'
  BY DEF Blame
<1>6. /\ IsEarly(net[e], d) => Blame + 2 <= Blame' /\ overtaken' # 0
      /\ misread' = misread + 1 => Blame + 1 <= Blame'
      /\ misread' = misread + 1 /\ IsEarly(net[e], d) => Blame + 3 <= Blame'
  <2>1. Blame' = lost + 2 * overtaken' + misread'
    BY <1>5
  <2>2. IsEarly(net[e], d) => overtaken' = overtaken + 1
    BY <1>4
  <2> DEFINE B == lost + 2 * overtaken + misread
             E == lost + 2 * overtaken' + misread'
  <2>3. /\ overtaken' = overtaken + 1 => B + 2 <= E /\ overtaken' # 0
        /\ misread' = misread + 1 => B + 1 <= E
        /\ misread' = misread + 1 /\ overtaken' = overtaken + 1 => B + 3 <= E
    BY <1>1, <1>2, WeightsDiffer
  <2>4. Blame = B /\ Blame' = E
    BY <1>5, <2>1
  <2> HIDE DEF B, E
  <2> QED BY <2>2, <2>3, <2>4
<1> QED BY <1>1, <1>3, <1>4, <1>6 DEF n2

\* read_package drops a datagram that is too short.
LEMMA ShortFlows ==
  ASSUME Values, Counts, Flows, [Next]_vars, NEW e \in Ends, ReadShort(e)
  PROVE  Flows'
<1>1. PICK d \in net[e] : Take(e, d)
  BY DEF ReadShort
<1> DEFINE n2 == Number(e)'
           k2 == Blame'
           v2 == overtaken'
           N == net[e] \ {d}
<1>2. /\ EndInv(net[e], read[e], loaded[e], n2, Blame, overtaken)
      /\ n2 \in Nat /\ Blame \in Nat /\ overtaken \in Nat
      /\ k2 \in Nat /\ Blame <= k2 /\ v2 \in Nat /\ overtaken <= v2
      /\ IsEarly(net[e], d) => Blame + 2 <= k2 /\ v2 # 0
      /\ net' = [net EXCEPT ![e] = N]
  BY <1>1, TakeFlows DEF ReadShort
<1>3. EndInv(N, Reading("resync"), loaded[e], n2, k2, v2)
  <2> HIDE DEF n2, k2, v2
  <2> QED BY <1>2, DroppedInv
<1>4. read' = [read EXCEPT ![e] = Reading("resync")]
  BY DEF ReadShort
<1>5. loaded' = [loaded EXCEPT ![e] = loaded[e]]
  BY DEF ReadShort, Flows
<1> HIDE DEF N
<1> QED BY <1>2, <1>3, <1>4, <1>5, OneEndFlows

\* What may be read as a header.
LEMMA ReadInfo ==
  ASSUME NEW d \in OnNet, NEW info \in HeaderRead(d, Garbage)
  PROVE  /\ info \in Infos /\ Expected(info) \in Nat
         /\ IsHeader(d) => info = Told(d) /\ char_to_type(info.data_type) \in Types
                           /\ Expected(info) > 0
<1>1. CASE IsHeader(d)
  <2>1. info = Told(d) /\ d \in Headers
    BY <1>1, DatagramFacts DEF HeaderRead, Told
  <2> QED BY <1>1, <2>1, HeaderFacts
<1>2. CASE ~ IsHeader(d)
  <2>1. \/ info = Info("?", 0, 0, 0)
        \/ info \in [data_type : {Letters[t] : t \in DOMAIN Letters}, nb_packets : Garbage,
                     packet_size : {0}, rem_size : {0}]
    BY <1>2 DEF HeaderRead
  <2>2. Garbage \subseteq Nat
    BY StreamsAssumption
  <2>3. info \in Infos
    <3>1. CASE info = Info("?", 0, 0, 0)
      BY <3>1, TypesOfLetters DEF Info, Infos
    <3>2. CASE info \in [data_type : {Letters[t] : t \in DOMAIN Letters}, nb_packets : Garbage,
                         packet_size : {0}, rem_size : {0}]
      <4> DEFINE C == {Letters[t] : t \in DOMAIN Letters}
      <4>1. C \subseteq Chars
        BY DEF Chars
      <4>2. info \in [data_type : C, nb_packets : Garbage, packet_size : {0}, rem_size : {0}]
        BY <3>2
      <4>3. /\ info.data_type \in C /\ info.nb_packets \in Garbage
            /\ info.packet_size \in {0} /\ info.rem_size \in {0}
            /\ info = [data_type |-> info.data_type, nb_packets |-> info.nb_packets,
                       packet_size |-> info.packet_size, rem_size |-> info.rem_size]
        <5> HIDE DEF C
        <5> QED BY <4>2
      <4>4. /\ info.data_type \in Chars /\ info.nb_packets \in Nat
            /\ info.packet_size \in Nat /\ info.rem_size \in Nat
        <5> HIDE DEF C
        <5> QED BY <2>2, <4>1, <4>3
      <4> HIDE DEF C
      <4> QED BY <4>3, <4>4, Zenon DEF Infos
    <3> QED BY <2>1, <3>1, <3>2
  <2> QED BY <1>2, <2>3 DEF Infos, Expected
<1> QED BY <1>1, <1>2

\* Nothing was taken for a frame: it is noise.
LEMMA AssembledNothing ==
  ASSUME NEW info
  PROVE  Assembled(info, <<>>) = Corrupt
<1>1. {<<>>[i].frame : i \in DOMAIN <<>>} = {}
  OBVIOUS
<1> QED BY <1>1 DEF Assembled

\* read_package takes a header, or a chunk for one.
LEMMA HeaderFlows ==
  ASSUME Values, Counts, Flows, [Next]_vars, NEW e \in Ends, ReadHeader(e)
  PROVE  Flows'
<1>1. PICK d \in net[e] :
        /\ Take(e, d) /\ UNCHANGED lost
        /\ \E info \in HeaderRead(d, Garbage) :
             /\ misread' = IF IsHeader(d) \/ char_to_type(info.data_type) = "Empty"
                           THEN misread ELSE misread + 1
             /\ \/ /\ \E at \in {"none", "header", "resync"} :
                        read' = [read EXCEPT ![e] = Reading(at)]
                   /\ UNCHANGED loaded
                \/ /\ char_to_type(info.data_type) # "Empty" /\ Expected(info) > 0
                   /\ read' = [read EXCEPT ![e] = [Reading("data") EXCEPT !.info = info]]
                   /\ UNCHANGED loaded
                \/ /\ char_to_type(info.data_type) # "Empty" /\ Expected(info) = 0
                   /\ load(e, info, <<>>)
                   /\ read' = [read EXCEPT ![e] = Reading("none")]
  <2>1. NotReading = Reading("none")
    BY DEF Reading, NotReading
  <2> QED BY <2>1 DEF ReadHeader
<1>2. PICK info \in HeaderRead(d, Garbage) :
             /\ misread' = IF IsHeader(d) \/ char_to_type(info.data_type) = "Empty"
                           THEN misread ELSE misread + 1
             /\ \/ /\ \E at \in {"none", "header", "resync"} :
                        read' = [read EXCEPT ![e] = Reading(at)]
                   /\ UNCHANGED loaded
                \/ /\ char_to_type(info.data_type) # "Empty" /\ Expected(info) > 0
                   /\ read' = [read EXCEPT ![e] = [Reading("data") EXCEPT !.info = info]]
                   /\ UNCHANGED loaded
                \/ /\ char_to_type(info.data_type) # "Empty" /\ Expected(info) = 0
                   /\ load(e, info, <<>>)
                   /\ read' = [read EXCEPT ![e] = Reading("none")]
  BY <1>1
<1>3. d \in OnNet
  BY DEF Flows
<1>4. /\ info \in Infos /\ Expected(info) \in Nat
      /\ IsHeader(d) => info = Told(d) /\ Expected(info) > 0
  BY <1>3, ReadInfo
<1> DEFINE n2 == Number(e)'
           k2 == Blame'
           v2 == overtaken'
           N == net[e] \ {d}
<1>5. /\ EndInv(net[e], read[e], loaded[e], n2, Blame, overtaken)
      /\ n2 \in Nat /\ Blame \in Nat /\ overtaken \in Nat
      /\ k2 \in Nat /\ Blame <= k2 /\ v2 \in Nat /\ overtaken <= v2
      /\ IsEarly(net[e], d) => Blame + 2 <= k2 /\ v2 # 0
      /\ misread' = misread + 1 => Blame + 1 <= k2
      /\ misread' = misread + 1 /\ IsEarly(net[e], d) => Blame + 3 <= k2
      /\ net' = [net EXCEPT ![e] = N]
  BY <1>1, TakeFlows
<1>6. loaded' = loaded => loaded' = [loaded EXCEPT ![e] = loaded[e]]
  BY DEF Flows
<1>7. ASSUME NEW at \in {"none", "header", "resync"},
             read' = [read EXCEPT ![e] = Reading(at)], UNCHANGED loaded
      PROVE  Flows'
  <2>1. EndInv(N, Reading(at), loaded[e], n2, k2, v2)
    <3> HIDE DEF n2, k2, v2
    <3> QED BY <1>5, DroppedInv
  <2> HIDE DEF N
  <2> QED BY <1>5, <1>6, <1>7, <2>1, OneEndFlows
<1>8. ASSUME char_to_type(info.data_type) # "Empty", Expected(info) > 0,
             read' = [read EXCEPT ![e] = [Reading("data") EXCEPT !.info = info]],
             UNCHANGED loaded
      PROVE  Flows'
  <2> DEFINE r2 == [Reading("data") EXCEPT !.info = info]
  <2>1. r2 = [at |-> "data", info |-> info, got |-> <<>>]
    <3>1. Reading("data") = [at |-> "data", info |-> Nothing, got |-> <<>>]
      BY DEF Reading, NotReading
    <3> QED BY <3>1
  <2>2. read[e].at # "data"
    BY DEF ReadHeader
  <2>3. \/ IsHeader(d) /\ info = Told(d)
        \/ ~ IsEarly(net[e], d) /\ Blame + 1 <= k2
        \/ Blame + 3 <= k2
    BY <1>2, <1>4, <1>5, <1>8
  <2>4. read' = [read EXCEPT ![e] = r2]
    BY <1>8
  <2> HIDE DEF r2
  <2>5. EndInv(N, r2, loaded[e], n2, k2, v2)
    <3> HIDE DEF n2, k2, v2
    <3> QED BY <1>4, <1>5, <1>8, <2>1, <2>2, <2>3, HeaderInv
  <2> HIDE DEF N
  <2> QED BY <1>5, <1>6, <1>8, <2>4, <2>5, OneEndFlows
<1>9. ASSUME char_to_type(info.data_type) # "Empty", Expected(info) = 0,
             load(e, info, <<>>), read' = [read EXCEPT ![e] = Reading("none")]
      PROVE  Flows'
  <2>1. CASE UNCHANGED loaded
    BY <1>7, <1>9, <2>1
  <2>2. CASE loaded' = [loaded EXCEPT ![e] = Append(loaded[e], Assembled(info, <<>>))]
    <3> DEFINE M == Append(loaded[e], Corrupt)
    <3>1. loaded' = [loaded EXCEPT ![e] = M]
      BY <2>2, AssembledNothing
    <3>2. Blame + 1 <= k2
      BY <1>2, <1>4, <1>5, <1>9
    <3>3. EndInv(N, Reading("none"), M, n2, k2, v2)
      <4> HIDE DEF n2, k2, v2
      <4> QED BY <1>5, <3>2, NoiseInv
    <3> HIDE DEF N, M
    <3> QED BY <1>5, <1>9, <3>1, <3>3, OneEndFlows
  <2> QED BY <1>9, <2>1, <2>2 DEF load
<1> QED BY <1>2, <1>7, <1>8, <1>9

\* receive_data takes a datagram for the next chunk.
LEMMA DataFlows ==
  ASSUME Values, Counts, Flows, [Next]_vars, NEW e \in Ends, ReadData(e)
  PROVE  Flows'
<1>1. PICK d \in net[e] : Take(e, d) /\ Received(e, d)
  BY DEF ReadData
<1> DEFINE n2 == Number(e)'
           k2 == Blame'
           v2 == overtaken'
           N == net[e] \ {d}
           r == read[e]
           G == Append(r.got, d)
           r2 == GotAlso(r, d)
<1>2. /\ EndInv(net[e], r, loaded[e], n2, Blame, overtaken)
      /\ n2 \in Nat /\ Blame \in Nat /\ overtaken \in Nat
      /\ k2 \in Nat /\ Blame <= k2 /\ v2 \in Nat /\ overtaken <= v2
      /\ IsEarly(net[e], d) => Blame + 2 <= k2 /\ v2 # 0
      /\ net' = [net EXCEPT ![e] = N]
  BY <1>1, TakeFlows DEF ReadData
<1>3. /\ Len(r.got) \in Nat /\ r.info \in Infos /\ Expected(r.info) \in Nat
      /\ r.got \in Seq(OnNet \cup {Nothing}) /\ r.at = "data"
      /\ Len(r.got) < Expected(r.info)
  <2>1. ReadState(r, n2)
    BY <1>2 DEF EndInv
  <2>2. r.at = "data"
    BY DEF ReadData
  <2>3. Len(r.got) < Expected(r.info)
    BY <2>1, <2>2 DEF ReadState
  <2> HIDE DEF r, n2
  <2> QED BY <2>1, <2>2, <2>3, ReadFacts
<1>4. d \in OnNet
  BY DEF Flows
<1>5. Len(G) = Len(r.got) + 1 /\ DOMAIN G = 1..Len(G)
  <2>1. G \in Seq(OnNet \cup {Nothing}) /\ Len(G) = Len(r.got) + 1
    <3> HIDE DEF r
    <3> QED BY <1>3, <1>4, AppendProperties
  <2> HIDE DEF G
  <2> QED BY <2>1, LenProperties
<1>6. loaded' = loaded => loaded' = [loaded EXCEPT ![e] = loaded[e]]
  BY DEF Flows
<1>7. CASE Len(G) < Expected(r.info)
  <2>1. loaded' = loaded /\ read' = [read EXCEPT ![e] = r2]
    BY <1>1, <1>7 DEF Received, GotAlso
  <2>2. EndInv(N, r2, loaded[e], n2, k2, v2)
    <3>1. Len(r.got) + 1 < Expected(r.info)
      BY <1>5, <1>7
    <3> HIDE DEF n2, k2, v2, r
    <3> QED BY <1>2, <1>3, <3>1, ChunkInv
  <2> HIDE DEF N, r2
  <2> QED BY <1>2, <1>6, <2>1, <2>2, OneEndFlows
<1>8. CASE ~ (Len(G) < Expected(r.info))
  <2>1. /\ read' = [read EXCEPT ![e] = NotReading]
        /\ \/ UNCHANGED loaded
           \/ (\A i \in DOMAIN G : G[i] # Nothing) /\ load(e, r.info, G)
    BY <1>1, <1>8 DEF Received
  <2>2. NotReading = Reading("none")
    BY DEF Reading, NotReading
  <2>3. CASE UNCHANGED loaded
    <3>1. EndInv(N, Reading("none"), loaded[e], n2, k2, v2)
      <4> HIDE DEF n2, k2, v2, r
      <4> QED BY <1>2, DroppedInv
    <3> HIDE DEF N
    <3> QED BY <1>2, <1>6, <2>1, <2>2, <2>3, <3>1, OneEndFlows
  <2>4. CASE /\ loaded' = [loaded EXCEPT ![e] = Append(loaded[e], Assembled(r.info, G))]
             /\ \A i \in DOMAIN G : G[i] # Nothing
    <3> DEFINE M == Append(loaded[e], Assembled(r.info, G))
    <3>1. EndInv(N, Reading("none"), M, n2, k2, v2)
      <4>1. Len(r.got) + 1 = Expected(r.info)
        BY <1>3, <1>5, <1>8
      <4>2. \A i \in 1..Len(G) : G[i] # Nothing
        BY <1>5, <2>4
      <4>3. G = Append(r.got, d)
        OBVIOUS
      <4> HIDE DEF n2, k2, v2, r, G
      <4> QED BY <1>2, <1>3, <4>1, <4>2, <4>3, LoadedInv
    <3>2. loaded' = [loaded EXCEPT ![e] = M]
      BY <2>4
    <3> HIDE DEF N, M
    <3> QED BY <1>2, <2>1, <2>2, <3>1, <3>2, OneEndFlows
  <2> QED BY <2>1, <2>3, <2>4 DEF load
<1> QED BY <1>7, <1>8

\* recvfrom waits for a chunk in vain.
LEMMA NoDataFlows ==
  ASSUME Values, Counts, Flows, [Next]_vars, NEW e \in Ends, ReadNoData(e)
  PROVE  Flows'
<1> DEFINE r == read[e]
           G == Append(r.got, Nothing)
           r2 == GotAlso(r, Nothing)
<1>1. Received(e, Nothing) /\ r.at = "data" /\ UNCHANGED <<net, lost, overtaken, misread>>
  BY TakeValues DEF ReadNoData
<1>2. /\ EndInv(net[e], r, loaded[e], Number(e), Blame, overtaken)
      /\ ReadState(r, Number(e))
  BY DEF Flows, WireState, EndInv
<1>3. /\ Len(r.got) \in Nat /\ Expected(r.info) \in Nat
      /\ r.got \in Seq(OnNet \cup {Nothing})
  <2> HIDE DEF r
  <2> QED BY <1>2, ReadFacts
<1>4. Len(G) = Len(r.got) + 1 /\ G[Len(G)] = Nothing /\ Len(G) \in DOMAIN G
  <2>1. /\ G \in Seq(OnNet \cup {Nothing}) /\ Len(G) = Len(r.got) + 1
        /\ G[Len(r.got) + 1] = Nothing
    <3> HIDE DEF r
    <3> QED BY <1>3, AppendProperties
  <2>2. DOMAIN G = 1..Len(G)
    <3> HIDE DEF G
    <3> QED BY <2>1, LenProperties
  <2> HIDE DEF G
  <2> QED BY <1>3, <2>1, <2>2
<1>5. CASE Len(G) < Expected(r.info)
  <2>1. loaded' = loaded /\ read' = [read EXCEPT ![e] = r2]
    BY <1>1, <1>5 DEF Received, GotAlso
  <2>2. EndInv(net[e], r2, loaded[e], Number(e), Blame, overtaken)
    <3>1. Len(r.got) + 1 < Expected(r.info)
      BY <1>4, <1>5
    <3> HIDE DEF r
    <3> QED BY <1>1, <1>2, <3>1, NothingInv
  <2> DEFINE n2 == Number(e)'
             k2 == Blame'
             v2 == overtaken'
  <2>3. EndInv(net[e], r2, loaded[e], n2, k2, v2)
    <3>1. /\ n2 \in Nat /\ Number(e) <= n2 /\ k2 \in Nat /\ Blame <= k2
          /\ v2 \in Nat /\ overtaken <= v2
      BY StepGrows
    <3> HIDE DEF n2, k2, v2, r2
    <3> QED BY <2>2, <3>1, StillInv
  <2>4. net' = [net EXCEPT ![e] = net[e]] /\ loaded' = [loaded EXCEPT ![e] = loaded[e]]
    BY <1>1, <2>1 DEF Flows
  <2> HIDE DEF r2
  <2> QED BY <2>1, <2>3, <2>4, OneEndFlows
<1>6. CASE ~ (Len(G) < Expected(r.info))
  <2>1. read' = [read EXCEPT ![e] = NotReading] /\ UNCHANGED loaded
    BY <1>1, <1>4, <1>6 DEF Received
  <2>2. NotReading = Reading("none")
    BY DEF Reading, NotReading
  <2> QED BY <1>1, <2>1, <2>2, StillFlows
<1> QED BY <1>5, <1>6

\* A datagram is lost.
LEMMA LoseFlows ==
  ASSUME Values, Counts, Flows, [Next]_vars, NEW e \in Ends, Lose(e)
  PROVE  Flows'
<1>1. PICK d \in net[e] : ~ Early(e, d) /\ net' = [net EXCEPT ![e] = net[e] \ {d}]
  BY DEF Lose
<1>2. ~ IsEarly(net[e], d)
  BY <1>1 DEF Early, IsEarly
<1>3. lost' = lost + 1 /\ UNCHANGED <<read, loaded, overtaken, misread>>
  BY DEF Lose, play
<1> DEFINE N  == net[e] \ {d}
           r  == read[e]
           L  == loaded[e]
           n1 == Number(e)
           n2 == Number(e)'
           k1 == Blame
           k2 == Blame'
           v  == overtaken
<1>4. EndInv(net[e], r, L, n1, k1, v)
  BY DEF Flows, WireState
<1>5. n1 \in Nat /\ n2 \in Nat /\ n1 <= n2 /\ k1 \in Nat /\ k2 \in Nat /\ k1 <= k2
  BY StepGrows
<1>6. k1 + 1 <= k2
  <2>1. lost \in Nat /\ misread \in Nat /\ overtaken \in Nat
    BY StreamsAssumption DEF Values
  <2>2. lost' + 2 * overtaken' + misread' = (lost + 2 * overtaken + misread) + 1
    BY <1>3, <2>1
  <2>3. k1 = lost + 2 * overtaken + misread /\ k2 = lost' + 2 * overtaken' + misread'
    BY DEF Blame
  <2>4. k2 = k1 + 1
    BY <2>2, <2>3
  <2> HIDE DEF k1, k2
  <2> QED BY <1>5, <2>4
<1>7. v \in Nat /\ v <= v
  BY <1>4 DEF EndInv
<1>8. EndInv(N, r, L, n2, k2, v)
  <2> HIDE DEF n1, n2, k1, k2, v, r, L
  <2>1. EndInv(N, r, L, n1, k2, v)
    BY <1>1, <1>2, <1>4, <1>5, <1>6, LostInv
  <2>2. k2 <= k2
    BY <1>5
  <2> QED BY <1>5, <1>7, <2>1, <2>2, StillInv
<1>9. EndInv(N, r, L, Number(e)', Blame', overtaken')
  BY <1>3, <1>8
<1>10. /\ net' = [net EXCEPT ![e] = N] /\ read' = [read EXCEPT ![e] = r]
       /\ loaded' = [loaded EXCEPT ![e] = L]
  BY <1>1, <1>3 DEF Flows
<1> HIDE DEF N, r, L
<1> QED BY <1>9, <1>10, OneEndFlows

\* The frame that send_audio or stream_video sends, and Done.
LEMMA SenderFlows ==
  ASSUME Values, Counts, Flows, [Next]_vars, NEW e \in Ends, SendFrame(e) \/ SenderDone(e)
  PROVE  Flows'
<1>0. /\ Other(e) \in Ends /\ Other(Other(e)) = e /\ e \in Ends
      /\ m_stream_type \in Types /\ "Done" \in Types /\ FrameSize \in Frames /\ 0 \in Frames
  BY OtherEnd, Bounds DEF Types
<1>1. sent[e] \in Nat
  BY Bounds DEF Counts
<1>2. CASE SendFrame(e)
  <2>1. PICK s \in {0, FrameSize} : Send(e, m_stream_type, s)
    BY <1>2 DEF SendFrame
  <2>2. s \in Frames
    BY <1>0
  <2>3. /\ sender[e] \in {"send", "drain"} /\ UNCHANGED <<read, loaded, overtaken, misread>>
        /\ sent' = IF net' = net THEN sent ELSE [sent EXCEPT ![e] = @ + 1]
        /\ sender' = [sender EXCEPT ![e] = IF @ = "send" THEN "test" ELSE @]
    BY <1>2 DEF SendFrame, play
  <2>4. sender[e] # "over" /\ sender'[e] # "over"
    BY <2>3 DEF Values
  <2>5. net' # net => sent'[e] = sent[e] + 1
    BY <2>3 DEF Counts
  <2>6. net' # net => Number(Other(e))' = Number(Other(e)) + 1
    BY <1>0, <1>1, <2>4, <2>5 DEF Number
  <2> QED BY <1>0, <2>1, <2>2, <2>3, <2>4, <2>6, SendFlows
<1>3. CASE SenderDone(e)
  <2>1. /\ Send(e, "Done", 0) /\ sender[e] = "drain"
        /\ UNCHANGED <<sent, read, loaded, overtaken, misread>>
        /\ sender' = [sender EXCEPT ![e] = "over"]
    BY <1>3 DEF SenderDone, send_done, play
  <2>2. sender[e] # "over" /\ sender'[e] = "over"
    BY <2>1 DEF Values
  <2>3. Number(Other(e))' = Number(Other(e)) + 1
    BY <1>0, <1>1, <2>1, <2>2 DEF Number
  <2> QED BY <1>0, <2>1, <2>2, <2>3, SendFlows
<1> QED BY <1>2, <1>3

LEMMA StepFlows ==
  ASSUME Values, Counts, Flows, [Next]_vars
  PROVE  Flows'
<1>1. ASSUME NEW e \in Ends, Starts(e) PROVE Flows'
  <2>1. CASE StartStream(e)
    <3>1. UNCHANGED <<net, loaded>> /\ read' = [read EXCEPT ![e] = Reading("header")]
      BY <2>1 DEF StartStream, wire
    <3> QED BY <3>1, StillFlows
  <2>2. CASE StartPlayback(e)
    <3>1. UNCHANGED <<net, loaded, read>>
      BY <2>2 DEF StartPlayback, wire
    <3> QED BY <3>1, StillFlows
  <2> QED BY <1>1, <2>1, <2>2 DEF Starts
<1>2. ASSUME NEW e \in Ends, Sends(e) PROVE Flows'
  <2>1. CASE SenderTest(e)
    <3>1. UNCHANGED <<net, loaded, read>>
      BY <2>1 DEF SenderTest, wire, play
    <3> QED BY <3>1, StillFlows
  <2> QED BY <1>2, <2>1, SenderFlows DEF Sends
<1>3. ASSUME NEW e \in Ends, Reads(e) PROVE Flows'
  <2>1. CASE ReadNothing(e)
    <3>1. UNCHANGED <<net, loaded>> /\ read' = [read EXCEPT ![e] = Reading("none")]
      <4>1. NotReading = Reading("none")
        BY DEF Reading, NotReading
      <4> QED BY <2>1, <4>1 DEF ReadNothing, TimedOut, wire
    <3> QED BY <3>1, StillFlows
  <2>2. CASE ReaderLoop(e)
    <3>1. /\ UNCHANGED <<net, loaded>>
          /\ read' = read \/ read' = [read EXCEPT ![e] = Reading("header")]
      BY <2>2 DEF ReaderLoop, wire
    <3> QED BY <3>1, StillFlows
  <2> QED BY <1>3, <2>1, <2>2, ShortFlows, HeaderFlows, DataFlows, NoDataFlows DEF Reads
<1>4. ASSUME NEW e \in Ends, Record(e) \/ hangup(e) \/ UserHangsUp(e) PROVE Flows'
  <2>1. UNCHANGED <<net, loaded, read>>
    BY <1>4 DEF Record, hangup, UserHangsUp, wire, play
  <2> QED BY <2>1, StillFlows
<1>5. CASE UNCHANGED vars
  <2>1. UNCHANGED <<net, loaded, read>> /\ "initiator" \in Ends
    BY <1>5 DEF vars, wire, play, Ends
  <2> QED BY <2>1, StillFlows
<1> QED BY <1>1, <1>2, <1>3, <1>4, <1>5, LoseFlows DEF Next

LEMMA IInvHolds == Spec => []IInv
<1>1. Init => IInv
  BY InitIInv
<1>2. IInv /\ [Next]_vars => IInv'
  <2> SUFFICES ASSUME IInv, [Next]_vars PROVE IInv'
    OBVIOUS
  <2>1. Values /\ Counts /\ Flows
    BY DEF IInv
  <2>2. Values' /\ Counts' /\ Flows'
    BY <2>1, StepValues, StepCounts, StepFlows
  <2> QED BY <2>2 DEF IInv
<1> QED BY <1>1, <1>2, PTL DEF Spec

-----------------------------------------------------------------------------
\* Streams: the type invariant.  The microphone's queue is within the bound and
\* read_package waits for a chunk exactly while the header announced more than
\* have come, whatever was taken for a header, by AVStream::send_audio,
\* Playback::read_package and StreamIO::receive_data.
THEOREM TypeCorrect == Spec => []TypeOK
<1>1. IInv => TypeOK
  BY InvIsTyped
<1> QED BY <1>1, IInvHolds, PTL

\* Streams: over a network that loses datagrams and lets them overtake, each frame
\* that is played is one that was sent or noise, none is played twice, frames
\* are played in the order of sending as long as no datagram overtakes, and no
\* more is noise than what was lost, twice what overtook and what was misread
\* accounts for (send_data and receive_data, which number nothing).
THEOREM FramesPlayedAsSent ==
  Spec => [](\A e \in Ends : /\ LoadedWereSent(e)
                             /\ LoadedOnce(e)
                             /\ LoadedInOrder(e)
                             /\ NoiseIsCaused(e))
<1> DEFINE Played(e) == /\ LoadedWereSent(e)
                        /\ LoadedOnce(e)
                        /\ LoadedInOrder(e)
                        /\ NoiseIsCaused(e)
<1>1. ASSUME IInv, NEW e \in Ends PROVE Played(e)
  <2> DEFINE L == loaded[e]
             n == Number(e)
             k == Blame
  <2>1. EndInv(net[e], read[e], L, n, k, overtaken)
    BY <1>1 DEF IInv, Flows, WireState
  <2>2. /\ n \in Nat /\ k \in Nat /\ L \in Seq(0..n) /\ Once(L)
        /\ overtaken = 0 => InOrder(L)
        /\ Cardinality(Noises(L)) + Owed(net[e], read[e]) <= k
        /\ Carries(net[e], n) /\ ReadState(read[e], n)
    BY <2>1 DEF EndInv
  <2>3. DOMAIN L = 1..Len(L) /\ Cardinality(Noises(L)) \in Nat
    <3> HIDE DEF L, n, k
    <3> QED BY <2>2, NoisesFinite
  <2>4. Owed(net[e], read[e]) \in Nat
    <3> HIDE DEF n
    <3> QED BY <2>2, OwedFacts
  <2>5. Cardinality(Noises(L)) <= k
    <3> HIDE DEF L, n, k
    <3> QED BY <2>2, <2>3, <2>4
  <2>6. Noise(e) = Noises(L)
    BY DEF Noise, Noises
  <2>7. NoiseIsCaused(e)
    <3>1. k = lost + 2 * overtaken + misread
      BY DEF Blame
    <3> HIDE DEF L, k
    <3> QED BY <2>5, <2>6, <3>1 DEF NoiseIsCaused
  <2>8. LoadedOnce(e)
    BY <2>2, <2>3 DEF LoadedOnce, Intact, Once
  <2>9. LoadedInOrder(e)
    BY <2>2, <2>3 DEF LoadedInOrder, Intact, InOrder
  <2>10. LoadedWereSent(e)
    <3>1. n = sent[Other(e)] + IF sender[Other(e)] = "over" THEN 1 ELSE 0
      BY DEF Number
    <3>2. \A i \in 1..Len(L) : L[i] <= n
      <4> HIDE DEF L, n
      <4> QED BY <2>2
    <3> HIDE DEF n
    <3> QED BY <2>3, <3>1, <3>2 DEF LoadedWereSent, Intact
  <2> QED BY <2>7, <2>8, <2>9, <2>10
<1>2. IInv => \A e \in Ends : Played(e)
  BY <1>1
<1> QED BY <1>2, IInvHolds, PTL
=============================================================================
