----------------------------- MODULE MsgFramer ------------------------------
(***************************************************************************)
(* The framing of messages on a connection (TmxApi/tmx/utils/MsgFramer.c)  *)
(* and the loop that both ends run around it: recv() into the rest of the  *)
(* buffer, msgFramer_incrementBufPos, and msgFramer_getNextMsg until it    *)
(* returns NULL (PluginConnection::receiverThread, ivp_receive).  The      *)
(* writer sends whole frames one after the other, as plugin->lock makes a  *)
(* plugin do; recv() cuts the stream of bytes anywhere.                    *)
(***************************************************************************)
EXTENDS Naturals, Sequences, SequencesExt

CONSTANTS
  MaxBufSize,  \* MSG_FRAMER_MAX_BUF_SIZE
  Bytes,       \* what a message is made of
  STX, ETX,    \* the bytes 0x02 and 0x03
  Payloads,    \* the messages: neither STX nor ETX is in one
  MaxSent      \* bound: how many messages are sent

ASSUME FramerAssumption ==
  /\ MaxBufSize \in Nat \ {0}
  /\ MaxSent \in Nat
  /\ STX # ETX
  /\ STX \in Bytes /\ ETX \in Bytes
  /\ \A m \in Payloads : m \in Seq(Bytes \ {STX, ETX})

VARIABLES
  sent,      \* the messages written so far
  stream,    \* the bytes on their way
  buf,       \* the first bufpos bytes of framer->buf
  readpos,   \* framer->readpos
  received,  \* what msgFramer_getNextMsg returned so far
  pc         \* "recv", or "next" in the loop over getNextMsg

vars == <<sent, stream, buf, readpos, received, pc>>

Init ==
  /\ sent = <<>>
  /\ stream = <<>>
  /\ buf = <<>>
  /\ readpos = 0
  /\ received = <<>>
  /\ pc = "recv"

\* msgFramer_createFramedMsg
createFramedMsg(m) == <<STX>> \o m \o <<ETX>>

Send(m) ==
  /\ Len(sent) < MaxSent
  /\ sent' = Append(sent, m)
  /\ stream' = stream \o createFramedMsg(m)
  /\ UNCHANGED <<buf, readpos, received, pc>>

\* Mutant: the whole buffer is passed to recv(), whatever is in it.
getBufLength_Whole == MaxBufSize

\* msgFramer_getBufLength: what is passed to recv()
getBufLength == MaxBufSize - Len(buf)

\* recv() brings n bytes; msgFramer_incrementBufPos
Recv(n) ==
  /\ pc = "recv"
  /\ n <= getBufLength
  /\ buf' = buf \o SubSeq(stream, 1, n)
  /\ stream' = SubSeq(stream, n + 1, Len(stream))
  /\ pc' = "next"
  /\ UNCHANGED <<sent, readpos, received>>

\* strstr() for a string of one byte: where x is first, or 0 for NULL
strstr(s, x) == SelectInSeq(s, LAMBDA y : y = x)

\* The buffer without what was returned before, from the first STX on; without
\* one bufpos is set to 0.
Aligned ==
  LET rest == SubSeq(buf, readpos + 1, Len(buf))
      msgStart == strstr(rest, STX)
  IN  IF msgStart = 0 THEN <<>> ELSE SubSeq(rest, msgStart, Len(rest))

\* Mutant: one message is taken per recv(), as if they came alone.
FoundMsg_Single(b, msgEnd) ==
  /\ received' = Append(received, SubSeq(b, 2, msgEnd - 1))
  /\ readpos' = msgEnd
  /\ buf' = b
  /\ pc' = "recv"

\* A message ends at msgEnd: it is returned and stays in the buffer until the
\* next call, which finds it before readpos.
FoundMsg(b, msgEnd) ==
  /\ received' = Append(received, SubSeq(b, 2, msgEnd - 1))
  /\ readpos' = msgEnd
  /\ buf' = b
  /\ pc' = "next"

\* Mutant: a full buffer is not given up.
NoMsg_KeepsFull(b) ==
  /\ readpos' = 0
  /\ buf' = b
  /\ pc' = "recv"
  /\ UNCHANGED received

\* There is no whole message: NULL.  A buffer that is full is given up.
NoMsg(b) ==
  /\ readpos' = 0
  /\ buf' = IF Len(b) = MaxBufSize THEN <<>> ELSE b
  /\ pc' = "recv"
  /\ UNCHANGED received

\* Mutant: the buffer is not aligned to the first STX.
getNextMsg_Unaligned ==
  /\ pc = "next"
  /\ LET b == SubSeq(buf, readpos + 1, Len(buf))
         msgEnd == strstr(b, ETX)
     IN  IF msgEnd # 0 THEN FoundMsg(b, msgEnd) ELSE NoMsg(b)
  /\ UNCHANGED <<sent, stream>>

\* msgFramer_getNextMsg
getNextMsg ==
  /\ pc = "next"
  /\ LET msgEnd == strstr(Aligned, ETX)
     IN  IF msgEnd # 0 THEN FoundMsg(Aligned, msgEnd) ELSE NoMsg(Aligned)
  /\ UNCHANGED <<sent, stream>>

Next ==
  \/ \E m \in Payloads : Send(m)
  \/ \E n \in 1..Len(stream) : Recv(n)
  \/ getNextMsg

Spec == Init /\ [][Next]_vars

-----------------------------------------------------------------------------
(* Properties *)

\* bufpos stays within the buffer: assert(framer->bufpos <= MAX_BUF_SIZE).
TypeOK ==
  /\ sent \in Seq(Payloads)
  /\ stream \in Seq(Bytes)
  /\ buf \in Seq(Bytes)
  /\ Len(buf) <= MaxBufSize
  /\ readpos \in 0..Len(buf)
  /\ received \in Seq(Seq(Bytes))
  /\ pc \in {"recv", "next"}

\* recv() is never called with no room left: it would return 0, and both ends
\* take that for the end of the connection.
RoomLeft == pc = "recv" => Len(buf) < MaxBufSize

\* A frame that fits into the buffer.
Fits(m) == Len(createFramedMsg(m)) <= MaxBufSize

\* The messages of s that fit, in their order.
Fitting(s) ==
  LET f[n \in 0..Len(s)] ==
        IF n = 0 THEN <<>> ELSE IF Fits(s[n]) THEN Append(f[n - 1], s[n]) ELSE f[n - 1]
  IN  f[Len(s)]

\* Whatever recv() cuts the stream into, the messages come out whole, once and
\* in order, and a message that does not fit is the only thing that is lost:
\* the framer finds the next frame again.
FramesInOrder == IsPrefix(received, Fitting(sent))

\* Nothing is held back: when every byte was read and the loop waits in
\* recv(), every message that fits was returned.
NothingWithheld ==
  pc = "recv" /\ stream = <<>> => received = Fitting(sent)
=============================================================================
