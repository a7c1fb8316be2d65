------------------------------- MODULE MCArith -------------------------------
(***************************************************************************)
(* The pure functions of the program against what they are for: the        *)
(* arithmetic over every key and set of members of a small circle, and the *)
(* encoding over every type of message, two short addresses, words that    *)
(* differ in every byte, and hosts of either byte order.  A behaviour has  *)
(* one of these inputs and keeps it.                                       *)
(***************************************************************************)
EXTENDS RingArith, MessageFormat

CONSTANTS
  TestWord,   \* words and addresses that messages are made of
  TestText

\* An address has no zero in it, and receiveMessage() has room for its message.
ASSUME InputAssumption ==
  /\ TestWord \subseteq Word
  /\ \A text \in TestText :
       /\ text \in Seq(Byte \ {0}) /\ text # NONE
       /\ \A type \in MType : SizeOf(type, text) \in Word /\ SizeOf(type, text) <= BufferSize

\* A circle of two is the only one on which a finger comes round to its node.
ASSUME SpanAssumption == \A p \in Span : p + 1 < RingSize

VARIABLES
  key, members,          \* a key, and the members of a ring
  message,               \* a message, or NONE
  sender, middle, receiver   \* byte orders of the hosts it passes

vars == <<key, members, message, sender, middle, receiver>>

\* Two words whose four bytes differ, and zero; a port, an id or a sequence
\* number may be any of them.
MCWord == {0, FromBigEndian(<<1, 2, 3, 0>>), FromBigEndian(<<3, 0, 2, 1>>)}
MCText == {<<1>>, <<3, 1, 2>>}

Message ==
  {Create(type, SubSeq(words, 1, WordsOf(type)), text) :
     type \in MType, words \in TestWord \X TestWord, text \in TestText}

CircleInput ==
  /\ key \in Ident /\ members \in SUBSET Ident
  /\ message = NONE
  /\ sender = "big" /\ middle = "big" /\ receiver = "big"

MessageInput ==
  /\ key = 0 /\ members = {}
  /\ message \in Message
  /\ sender \in ByteOrder /\ middle \in ByteOrder /\ receiver \in ByteOrder

Init == CircleInput \/ MessageInput

Next == UNCHANGED vars

Spec == Init /\ [][Next]_vars

-----------------------------------------------------------------------------
\* isInSuccessor() is membership of the arc that starts after `start' and ends
\* at `end', for every pair of ends: wrapping past zero or not, and empty.
MembershipIsArc ==
  \A start, end \in Ident : IsInSuccessor(key, start, end) <=> InArc(key, start, end)

\* In an ideal ring of two or more, exactly one member holds the key to be its
\* successor's, and that successor is the node responsible for the key: this
\* is why a lookup that walks the successors ends, with the right answer.
OneMemberAnswers ==
  Cardinality(members) > 1 =>
    LET answering == {n \in members : IsInSuccessor(key, n, NextOn(members, n))} IN
    /\ Cardinality(answering) = 1
    /\ \A n \in answering : NextOn(members, n) = Owner(members, key)

\* The first key of a finger is its span ahead of the node, and one further if
\* the sum passes UINT_MAX: no finger starts at or behind its own node.
FingersReachAhead ==
  \A p \in Span :
    /\ FingerStart(key, p) \in Ident
    /\ Clockwise(key, FingerStart(key, p)) \in {p, p + 1}
    /\ key + p < RingSize => Clockwise(key, FingerStart(key, p)) = p

-----------------------------------------------------------------------------
Datagram == Serialize(sender, message)

\* What a host reads is what another wrote, whatever order of bytes each uses:
\* the type, every integer and every character of the address.
RoundTrip ==
  message # NONE => Unserialize(receiver, Received(Datagram)) = message

\* A query that hosts on the way read, and write again to pass it on, reaches
\* the last host as the same bytes, its type included: a join or finger query
\* stays one although the three kinds of query share a structure.
ForwardedUnchanged ==
  message # NONE =>
    Serialize(middle, Unserialize(middle, Received(Datagram))) = Datagram

\* The timeout that resends a saved datagram knows its length only from the
\* bytes themselves, and sends all of it.
ResendIsWhole ==
  message # NONE => GetSize(sender, Datagram) = Len(Datagram)
=============================================================================
