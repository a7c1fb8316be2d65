---------------------------- MODULE MessageFormat ----------------------------
(***************************************************************************)
(* MessageHandler: the datagrams as bytes.  A message is written by one    *)
(* host, perhaps read and written again by others that forward it, and     *)
(* read by the last, and the hosts may keep integers in memory in either   *)
(* order of bytes.                                                         *)
(*                                                                         *)
(* A message in memory is [type, size, words, text]: words are its integer *)
(* fields after size in the order of the structure, text the characters of *)
(* its address, or NONE if the structure has none.  A word has four bytes; *)
(* ByteSize is 256, a parameter so that TLC can use small words.           *)
(***************************************************************************)
EXTENDS Integers, Sequences

CONSTANTS
  ByteSize,      \* values of a byte
  BufferSize,    \* bytes receiveMessage() has room for
  NONE           \* no address; no message

ASSUME FormatAssumption ==
  /\ ByteSize \in Nat \ {0, 1}
  /\ BufferSize \in Nat

Byte == 0 .. ByteSize - 1
Word == 0 .. ByteSize * ByteSize * ByteSize * ByteSize - 1

ByteOrder == {"big", "little"}

-----------------------------------------------------------------------------
(* Words and bytes.  A word is stored in the order of the host.            *)

BigEndian(w) ==
  <<((w \div ByteSize) \div ByteSize) \div ByteSize,
    ((w \div ByteSize) \div ByteSize) % ByteSize,
    (w \div ByteSize) % ByteSize,
    w % ByteSize>>

FromBigEndian(b) ==
  ((b[1] * ByteSize + b[2]) * ByteSize + b[3]) * ByteSize + b[4]

Swap(b) == <<b[4], b[3], b[2], b[1]>>

\* The four bytes of a word in memory, and the word four bytes make there.
itobc(order, w) == IF order = "big" THEN BigEndian(w) ELSE Swap(BigEndian(w))
bctoi(order, b) == FromBigEndian(IF order = "big" THEN b ELSE Swap(b))

\* To and from the order of the network; each host knows only its own.
htonl(order, w) == IF order = "big" THEN w ELSE FromBigEndian(Swap(BigEndian(w)))
ntohl(order, w) == htonl(order, w)

PutWord(order, w) == itobc(order, htonl(order, w))

\* The word at an offset of a byte stream.
GetWord(order, bytes, offset) ==
  ntohl(order, bctoi(order, SubSeq(bytes, offset + 1, offset + 4)))

-----------------------------------------------------------------------------
(* The types and their layout.                                             *)

MTYPE_SUCCESSOR_QUERY == 1
MTYPE_JOIN_SUCCESSOR_QUERY == 2
MTYPE_SUCCESSOR_RESPONSE == 3
MTYPE_CHORD_MAP_QUERY == 4
MTYPE_CHORD_MAP_RESPONSE == 5
MTYPE_UPDATE_PREDECESSOR == 6
MTYPE_UPDATE_PREDECESSOR_ACK == 7
MTYPE_STABILIZE_REQUEST == 8
MTYPE_STABILIZE_RESPONSE == 9
MTYPE_FINGER_QUERY == 10
MTYPE_FINGER_RESPONSE == 11

MType == 1 .. 11

\* Lookups and their responses hold a search term and a port, the others one
\* word: a port, a sequence number or an id.
Lookup == {MTYPE_SUCCESSOR_QUERY, MTYPE_JOIN_SUCCESSOR_QUERY, MTYPE_FINGER_QUERY,
           MTYPE_SUCCESSOR_RESPONSE, MTYPE_FINGER_RESPONSE}
WordsOf(type) == IF type \in Lookup THEN 2 ELSE 1

TextOffset(type) == 8 + 4 * WordsOf(type)

\* The create functions: the size counts the terminating zero of the address.
WithoutZero(type, text) == TextOffset(type) + Len(text)
SizeOf(type, text) ==
  IF type = MTYPE_UPDATE_PREDECESSOR_ACK
  THEN TextOffset(type)
  ELSE TextOffset(type) + Len(text) + 1

Create(type, words, text) ==
  [type |-> type, size |-> SizeOf(type, text), words |-> words,
   text |-> IF type = MTYPE_UPDATE_PREDECESSOR_ACK THEN NONE ELSE text]

-----------------------------------------------------------------------------
(* serialize() and unserialize().                                          *)

\* What a character pointer refers to: the characters and a zero.
InMemory(text) == Append(text, 0)

\* The characters up to the first zero.  Beyond a missing zero the program
\* would read on: such a text equals no address.
CString(chars) ==
  IF \E i \in DOMAIN chars : chars[i] = 0
  THEN LET end == CHOOSE i \in DOMAIN chars :
                    chars[i] = 0 /\ \A j \in 1 .. i - 1 : chars[j] # 0
       IN SubSeq(chars, 1, end - 1)
  ELSE InMemory(chars)

Serialize(order, m) ==
  PutWord(order, m.type) \o PutWord(order, m.size) \o PutWord(order, m.words[1])
    \o (IF WordsOf(m.type) = 2 THEN PutWord(order, m.words[2]) ELSE <<>>)
    \o (IF m.text = NONE THEN <<>>
        ELSE SubSeq(InMemory(m.text), 1, m.size - TextOffset(m.type)))

\* The type of a message read: the one in the bytes.
AlwaysPlainLookup(order, bytes) ==
  LET type == GetWord(order, bytes, 0) IN
  IF type \in {MTYPE_JOIN_SUCCESSOR_QUERY, MTYPE_FINGER_QUERY}
  THEN MTYPE_SUCCESSOR_QUERY ELSE type
TypeRead(order, bytes) == GetWord(order, bytes, 0)

\* bytes are those received; what follows them in the buffer is never read
\* as long as size is right.
Unserialize(order, bytes) ==
  LET type == TypeRead(order, bytes)
      size == GetWord(order, bytes, 4)
  IN IF type \notin MType THEN NONE
     ELSE [type |-> type, size |-> size,
           words |-> [i \in 1 .. WordsOf(type) |-> GetWord(order, bytes, 4 + 4 * i)],
           text |-> IF type = MTYPE_UPDATE_PREDECESSOR_ACK \/ size = TextOffset(type)
                    THEN NONE
                    ELSE CString(SubSeq(bytes, TextOffset(type) + 1, size))]

\* recvfrom() cuts a datagram to the buffer.
Received(bytes) == SubSeq(bytes, 1, IF Len(bytes) <= BufferSize THEN Len(bytes) ELSE BufferSize)

\* How many bytes of a saved datagram a timeout sends again.
SizeInHostOrder(order, bytes) == bctoi(order, SubSeq(bytes, 5, 8))
GetSize(order, bytes) == GetWord(order, bytes, 4)
=============================================================================
