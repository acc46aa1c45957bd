------------------------------ MODULE ChatWire ------------------------------
(***************************************************************************)
(* How a list of chats travels: written by ChatControllers::build_response *)
(* and UserChat::to_string, read by Chat::parse_chat and                   *)
(* UserChat::from_string (src/src/server/chat_controller.cpp,              *)
(* src/src/shared/user_chat.cpp, src/src/client/user/chat.cpp).            *)
(*                                                                         *)
(* A string is a sequence of tokens, and its size the number of them: a    *)
(* number, the fields before the text of a chat, a mark that tells one     *)
(* text from another, and the delimiter ":", which a text may contain.     *)
(***************************************************************************)
EXTENDS Integers, Sequences

Number(n)  == <<"number", n>>
Fields(c)  == <<"fields", c>>
Mark(n)    == <<"mark", n>>
Delim      == <<"delim", 0>>

\* StringUtils::split_first: at the first delimiter, or all and nothing.
split_first(s) ==
  LET D == {i \in DOMAIN s : s[i] = Delim}
  IN  IF D = {} THEN <<s, <<>>>>
      ELSE LET i == CHOOSE i \in D : \A j \in D : i <= j
           IN  <<SubSeq(s, 1, i - 1), SubSeq(s, i + 1, Len(s))>>

\* The two StringUtils::split_at, in front of one position and between each two.
cut(s, position) == <<SubSeq(s, 1, position), SubSeq(s, position + 1, Len(s))>>
split_at(s, positions) ==
  [i \in 1..Len(positions) - 1 |-> SubSeq(s, positions[i] + 1, positions[i + 1])]

\* UserChat::to_string: the fields, and the text that follows without delimiter.
to_string(chat) == <<Fields([chat EXCEPT !.text = <<>>])>> \o chat.text

\* Mutant: the size counts the delimiter in front of the fields.
from_string_one_off(s) ==
  LET parts == split_first(s)
      info  == cut(parts[2], parts[1][1][2] + 1)
  IN  [info[1][1][2] EXCEPT !.text = info[2]]

\* UserChat::from_string: the size of the fields, the fields, the text.
from_string(s) ==
  LET parts == split_first(s)
      info  == cut(parts[2], parts[1][1][2])
  IN  [info[1][1][2] EXCEPT !.text = info[2]]

\* One chat in the response, behind the size of its fields.
Framed(chat) ==
  <<Number(Len(to_string(chat)) - Len(chat.text)), Delim>> \o to_string(chat)

\* The header, a list of numbers between commas up to the first ":": where each
\* chat ends, the first position being 0.  After k turns of the loop:
Built(chats) ==
  LET built[k \in 0..Len(chats)] ==
        IF k = 0 THEN [header |-> <<0>>, content |-> <<>>]
        ELSE LET content == built[k - 1].content \o Framed(chats[k])
             IN  [header  |-> Append(built[k - 1].header, Len(content)),
                  content |-> content]
  IN  built

build_response(chats) == Built(chats)[Len(chats)]

parse_chat(response) ==
  LET strings == split_at(response.content, response.header)
  IN  [i \in DOMAIN strings |-> from_string(strings[i])]
=============================================================================
