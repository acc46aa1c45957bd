------------------------------ MODULE StreamIO ------------------------------
(***************************************************************************)
(* How a frame of audio or video crosses the network                       *)
(* (src/src/shared/connection/stream_io.cpp): a header datagram that says  *)
(* what comes, then the data in chunks of one size and a shorter one for   *)
(* the remainder.  Nothing in a chunk says to which frame it belongs: the  *)
(* receiver knows a header by its place among what arrives, and by the     *)
(* letter it begins with.  The content of a chunk is abstracted to the     *)
(* number of its frame and its place in it.                                *)
(***************************************************************************)
EXTENDS Integers, Sequences

m_MIN_NB_PACKETS           == 10
m_MAX_PACKET_SIZE          == 9000
m_SINGLE_PACKAGE_THRESHOLD == 1000
m_HEADER_SIZE              == 25
MaxAllocation              == 1000000   \* receive_data takes less than this

\* Data::type_to_char and char_to_type: any other character means Empty.
Letters == [Audio |-> "a", Video |-> "v", Done |-> "d", Text |-> "t"]

type_to_char(type) == Letters[type]

char_to_type(c) ==
  IF \E t \in DOMAIN Letters : Letters[t] = c
  THEN CHOOSE t \in DOMAIN Letters : Letters[t] = c
  ELSE "Empty"

\* The tuple PacketInfoTuple: type, number of chunks, their size, remainder.
Info(c, nb, packet, rem) ==
  [data_type |-> c, nb_packets |-> nb, packet_size |-> packet, rem_size |-> rem]

\* Mutant: ten chunks whatever the size.
make_packet_info_of_ten(type, size) ==
  LET packet == size \div m_MIN_NB_PACKETS
  IN IF size < m_SINGLE_PACKAGE_THRESHOLD
     THEN Info(type_to_char(type), 1, size, 0)
     ELSE Info(type_to_char(type), size \div packet, packet,
               size % m_MIN_NB_PACKETS)

make_packet_info(type, size) ==
  LET max_total_data == m_MIN_NB_PACKETS * m_MAX_PACKET_SIZE
      grow_by == IF size > max_total_data
                 THEN (size - max_total_data) \div m_MAX_PACKET_SIZE + 1
                 ELSE 0
      packet  == size \div (m_MIN_NB_PACKETS + grow_by)
  IN IF size < m_SINGLE_PACKAGE_THRESHOLD
     THEN Info(type_to_char(type), 1, size, 0)
     ELSE Info(type_to_char(type), size \div packet, packet,
               size % (m_MIN_NB_PACKETS + grow_by))

\* The eight bytes of a size_t, lowest first; sizes here are below 2^31.
push_to_header(v) ==
  <<v % 256, (v \div 256) % 256, (v \div 65536) % 256, v \div 16777216>>
    \o <<0, 0, 0, 0>>

make_header(info) ==
  <<info.data_type>> \o push_to_header(info.nb_packets)
    \o push_to_header(info.packet_size) \o push_to_header(info.rem_size)

read_header_item(header, pos) ==
  header[pos] + 256 * header[pos + 1] + 65536 * header[pos + 2]
    + 16777216 * header[pos + 3]

read_header(header) ==
  Info(header[1], read_header_item(header, 2), read_header_item(header, 10),
       read_header_item(header, 18))

\* The buffers receive_data fills, one for each datagram it waits for.
Expected(info) ==
  IF info.nb_packets * info.packet_size + info.rem_size >= MaxAllocation THEN 0
  ELSE info.nb_packets + IF info.rem_size = 0 THEN 0 ELSE 1

\* Datagrams, with the frame and their place in it: what the receiver is not
\* told, but the order in which they are sent.  A header has the place 0.
HeaderOf(frame, info)    == [frame |-> frame, place |-> 0, size |-> m_HEADER_SIZE,
                             header |-> make_header(info)]
ChunkOf(frame, i, bytes) == [frame |-> frame, place |-> i, size |-> bytes]
IsHeader(d)              == "header" \in DOMAIN d
Before(c, d) == c.frame < d.frame \/ (c.frame = d.frame /\ c.place < d.place)

send_data(frame, info) ==
  [i \in 1..info.nb_packets |-> ChunkOf(frame, i, info.packet_size)]
    \o IF info.rem_size = 0 THEN <<>>
       ELSE <<ChunkOf(frame, info.nb_packets + 1, info.rem_size)>>

\* The chunks of a frame as they are on the network.
Chunks(frame, info) ==
  LET chunks == send_data(frame, info) IN {chunks[i] : i \in DOMAIN chunks}

\* Mutant: the header is sent last.
respond_data_first(type, frame, size) ==
  LET info == make_packet_info(type, size)
  IN {[HeaderOf(frame, info) EXCEPT !.place = Expected(info) + 1]} \cup Chunks(frame, info)

\* What is sent for one frame.
respond(type, frame, size) ==
  LET info == make_packet_info(type, size)
  IN {HeaderOf(frame, info)} \cup Chunks(frame, info)

\* What the receiver may make of a datagram of at least 25 bytes in the place of
\* a header.  A chunk there means nothing, unless it begins with one of the
\* letters; what follows the letter then tells any size and any number of chunks.
HeaderRead(d, counts) ==
  IF IsHeader(d) THEN {read_header(d.header)}
  ELSE {Info("?", 0, 0, 0)}
         \cup [data_type : {Letters[t] : t \in DOMAIN Letters}, nb_packets : counts,
               packet_size : {0}, rem_size : {0}]

\* The frame, if the datagrams taken for its chunks are all of it, in order, and
\* of the sizes the header told.
Corrupt == 0

Assembled(info, got) ==
  LET frames == {f \in {got[i].frame : i \in DOMAIN got} : got = send_data(f, info)}
  IN IF frames = {} THEN Corrupt ELSE CHOOSE f \in frames : TRUE
=============================================================================
