-------------------------------- MODULE Response --------------------------------
(*******************************************************************************)
(* How a worker reads a response: http_internal_response of http_core.c with   *)
(* the header parser (http_parse_response_header_per_buffer) and the decoder   *)
(* of chunked bodies (http_chunked_response_body), on one slot of              *)
(* g_conn_workspace that is used for one exchange after the other.             *)
(*                                                                             *)
(* The stream comes in pieces: a read returns any number of the bytes that     *)
(* have been sent.  A byte is a member of a small set; a word of the header    *)
(* that the code compares as a whole ("HTTP", a header name, ": ", "chunked")  *)
(* is one byte here.  The buffer keeps what earlier reads left in it, and the  *)
(* slot what earlier responses did.  Nothing is assumed of where reads end.     *)
(* Where the code then takes bytes or state for what they are not, misread is   *)
(* set, and the properties say what they still promise.                         *)
(*******************************************************************************)
EXTENDS Integers, Sequences, FiniteSetsExt, SequencesExt

CONSTANTS
  Sessions,      \* sequences of responses that one slot receives
  Capacity,      \* HTTP_CONN_DATA_BUFFER_SIZE
  Pieces         \* bound: how many bytes a read may return that returns less than
                 \* has been sent and the buffer can take

Hex == <<"0", "1", "2", "3", "4", "5", "6", "7", "8", "9">>
HexValue(b) == CHOOSE v \in 0 .. Len(Hex) - 1 : Hex[v + 1] = b
Digits == {Hex[v] : v \in 1 .. Len(Hex)}
CRLF == <<"CR", "LF">>
Letters == {"p", "q", "r", "s"}       \* bytes of a body
Bytes == Digits \cup Letters \cup
           {"CR", "LF", "HTTP", "200", "te", "len", "date", ":", "chunked", "nul", "old"}

(* A response: how its body is framed, the chunks the server cuts it into, and  *)
(* with how many digits the server writes the size of a chunk.                  *)
Framings == {"chunked", "length", "close", "no_space"}
Responses == [framing : Framings, chunks : Seq(Seq(Letters)), digits : 1 .. 4]

ASSUME ResponseAssumption ==
  /\ Sessions \subseteq Seq(Responses)
  /\ \A s \in Sessions : s # <<>> /\ \A j \in 1 .. Len(s) :
       /\ \A c \in 1 .. Len(s[j].chunks) : Len(s[j].chunks[c]) \in 1 .. 9
       /\ s[j].framing = "length" => Len(FlattenSeq(s[j].chunks)) <= 9    \* one digit
  /\ Capacity \in Nat \ {0}
  /\ Pieces \subseteq Nat \ {0}

Payload(r) == FlattenSeq(r.chunks)
Field(r) ==
  CASE r.framing = "chunked" -> <<"te", ":", "chunked">>
    [] r.framing = "length" -> <<"len", ":", Hex[Len(Payload(r)) + 1]>>
    [] r.framing = "close" -> <<"date", ":", "1">>
    [] r.framing = "no_space" -> <<"date", "1">>      \* "Date:1" has no ": "
StatusLine == <<"HTTP", "200">> \o CRLF
Header(r) == StatusLine \o Field(r) \o CRLF \o CRLF
ChunkSize(c, d) == SubSeq(<<"0", "0", "0", Hex[Len(c) + 1]>>, 5 - d, 4)
Chunk(c, d) == ChunkSize(c, d) \o CRLF \o c \o CRLF
Body(r) ==
  IF r.framing = "chunked"
  THEN FlattenSeq([c \in 1 .. Len(r.chunks) |-> Chunk(r.chunks[c], r.digits)])
         \o <<"0">> \o CRLF \o CRLF
  ELSE Payload(r)

VARIABLES
  session, nth,             \* the responses of this slot, and which one is read
  pos, closed,              \* the wire: bytes read so far; closed by the server
  \* conn->ctx
  state, remain_index, remain_len,
  chunk_size, chunk_terminate_state, chunk_state_remain_byte, chunk_size_str,
  \* conn->resp
  transfer_encoding, content_length,
  \* the worker's buffer and the locals of http_internal_response
  buffer, read_len, body_len, forced_continue,
  prev,                     \* the parser's: start of the line it looks at
  idx, len, entering,       \* the decoder's: unread part of the buffer, first label
  pc,
  delivered,                \* history: what resp_body_func got of this response
  misread                   \* history: the code has taken, for this response, bytes
                            \* or state for what they are not

wireVars == <<session, nth, pos, closed>>
remainVars == <<remain_index, remain_len>>
chunkVars == <<chunk_size, chunk_terminate_state, chunk_state_remain_byte, chunk_size_str>>
respVars == <<transfer_encoding, content_length>>
readVars == <<buffer, read_len>>
loopVars == <<body_len, forced_continue, delivered>>
decoderVars == <<idx, len, entering>>
vars == <<wireVars, state, remainVars, chunkVars, respVars, readVars, loopVars,
          prev, decoderVars, pc, misread>>

response == session[nth]
stream == Header(response) \o Body(response)
Goes(l) == pc' = l

Init ==
  /\ session \in Sessions /\ nth = 1
  /\ pos = 0 /\ closed = FALSE
  /\ state = "first_line" /\ remain_index = 0 /\ remain_len = 0
  /\ chunk_size = 0 /\ chunk_terminate_state = 0
  /\ chunk_state_remain_byte = 0 /\ chunk_size_str = <<>>
  /\ transfer_encoding = "none" /\ content_length = 0
  /\ \E b \in {"nul", "old"} : buffer = [i \in 0 .. Capacity - 1 |-> b]
  /\ read_len = 0 /\ body_len = 0 /\ forced_continue = FALSE
  /\ prev = 0
  /\ idx = 0 /\ len = 0 /\ entering = FALSE
  /\ pc = "read"
  /\ delivered = <<>> /\ misread = FALSE

(* The next exchange on the slot: it is claimed again and another worker may    *)
(* read the response, with a buffer of its own.  Neither conn->ctx nor          *)
(* conn->resp is cleared (interprete_single_command, http_internal_response).   *)
NextExchange ==
  /\ pc \in {"done", "failed"} /\ nth < Len(session)
  /\ nth' = nth + 1
  /\ pos' = 0 /\ closed' = FALSE
  /\ state' = "first_line"
  /\ read_len' = 0 /\ body_len' = 0 /\ forced_continue' = FALSE
  /\ delivered' = <<>> /\ misread' = FALSE
  /\ Goes("read")
  /\ UNCHANGED <<session, remainVars, chunkVars, respVars, buffer, prev, decoderVars>>

--------------------------------------------------------------------------------
(* The wire.                                                                    *)

(* A server that announces neither a length nor chunks ends the body by closing *)
(* the connection; any server may close it behind the body, or break off.       *)
ServerCloses ==
  /\ pc = "read" /\ ~closed
  /\ closed' = TRUE
  /\ UNCHANGED <<session, nth, pos, state, remainVars, chunkVars, respVars, readVars>>
  /\ UNCHANGED <<loopVars, prev, decoderVars, pc, misread>>

(* The bytes are put behind what the parser has kept of a line, but the parser  *)
(* is told their number, and looks at as many from the front of the buffer.     *)
Read(n) ==
  /\ pos' = pos + n
  /\ LET sent == stream
     IN  buffer' = [i \in 0 .. Capacity - 1 |->
                      IF i \in remain_len .. remain_len + n - 1
                      THEN sent[pos + 1 + (i - remain_len)] ELSE buffer[i]]
  /\ read_len' = n
  /\ prev' = 0
  /\ Goes(IF state \in {"first_line", "header_line"} THEN "parse" ELSE "body")
  /\ misread' = (misread \/ remain_len > 0)
  /\ UNCHANGED <<session, nth, closed, state, remainVars, chunkVars, respVars>>
  /\ UNCHANGED <<loopVars, decoderVars>>

Receive ==
  /\ pc = "read" /\ ~closed
  /\ LET most == Min({Len(stream) - pos, Capacity - remain_len})
     IN  \E n \in 1 .. most : n \in Pieces \cup {most} /\ Read(n)

(* read returns 0; with forced_continue the body is still run once on nothing.  *)
(* A line that fills the buffer is taken for the end of the connection.         *)
ReadNothing ==
  /\ pc = "read" /\ (closed \/ remain_len = Capacity)
  /\ IF forced_continue THEN Goes("body") ELSE Goes("done")
  /\ read_len' = 0
  /\ misread' = (misread \/ ~closed)
  /\ UNCHANGED <<wireVars, state, remainVars, chunkVars, respVars, buffer>>
  /\ UNCHANGED <<loopVars, prev, decoderVars>>

(* read fails on a connection that has been reset: an error only in the middle  *)
(* of chunks.                                                                   *)
ReadFails ==
  /\ pc = "read" /\ closed /\ pos < Len(stream)
  /\ Goes(IF forced_continue THEN "failed" ELSE "done")
  /\ UNCHANGED <<wireVars, state, remainVars, chunkVars, respVars, readVars>>
  /\ UNCHANGED <<loopVars, prev, decoderVars, misread>>

--------------------------------------------------------------------------------
(* The header: one line after the other, up to read_len, whatever was kept at   *)
(* the front of the buffer.                                                     *)

LineEnds == {p \in prev .. read_len - 2 : buffer[p] = "CR" /\ buffer[p + 1] = "LF"}
Line == [j \in 1 .. Min(LineEnds) - prev |-> buffer[prev + j - 1]]
Blank == prev > 0 /\ Min(LineEnds) = prev

(* What is left of an unfinished line is moved to the front. *)
KeepRest ==
  /\ pc = "parse" /\ LineEnds = {}
  /\ remain_index' = prev
  /\ remain_len' = read_len - prev
  /\ buffer' = [i \in 0 .. Capacity - 1 |->
                  IF i < read_len - prev THEN buffer[prev + i] ELSE buffer[i]]
  /\ prev' = 0
  /\ Goes("read")
  /\ UNCHANGED <<wireVars, state, chunkVars, respVars, read_len, loopVars, decoderVars, misread>>

NextLine ==
  /\ prev' = Min(LineEnds) + 2
  /\ state' = "header_line"
  /\ UNCHANGED <<wireVars, remainVars, chunkVars, readVars, loopVars, decoderVars, pc, misread>>

FirstLine ==
  /\ pc = "parse" /\ LineEnds # {} /\ ~Blank
  /\ state = "first_line" /\ Contains(Line, "HTTP")
  /\ NextLine
  /\ UNCHANGED respVars

HeaderName == SubSeq(Line, 1, SelectInSeq(Line, LAMBDA b : b = ":") - 1)
HeaderData == SubSeq(Line, SelectInSeq(Line, LAMBDA b : b = ":") + 1, Len(Line))

HeaderLine ==
  /\ pc = "parse" /\ LineEnds # {} /\ ~Blank
  /\ state = "header_line" /\ Contains(Line, ":")
  /\ transfer_encoding' =
       IF HeaderName # <<"te">> THEN transfer_encoding
       ELSE IF HeaderData = <<"chunked">> THEN "chunked" ELSE "not_supported"
  /\ content_length' =
       IF HeaderName = <<"len">> /\ HeaderData # <<>> /\ HeaderData[1] \in Digits
       THEN HexValue(HeaderData[1]) ELSE content_length
  /\ NextLine

(* A first line without HTTP, or a header line without separator: the result of *)
(* strstr is used without a test.                                               *)
BadLine ==
  /\ pc = "parse" /\ LineEnds # {} /\ ~Blank
  /\ ~Contains(Line, IF state = "first_line" THEN "HTTP" ELSE ":")
  /\ Goes("crashed")
  /\ UNCHANGED <<wireVars, state, remainVars, chunkVars, respVars, readVars>>
  /\ UNCHANGED <<loopVars, prev, decoderVars, misread>>

BlankLine ==
  /\ pc = "parse" /\ LineEnds # {} /\ Blank
  /\ state' = "body"
  /\ remain_index' = prev + 2
  /\ remain_len' = read_len - prev - 2
  /\ prev' = 0
  /\ Goes("header_end")
  /\ UNCHANGED <<wireVars, chunkVars, respVars, readVars, loopVars, decoderVars, misread>>

--------------------------------------------------------------------------------
(* The loop of http_internal_response once the header has been read.            *)

Byte(i) == IF i < Capacity THEN buffer[i] ELSE "nul"   \* behind the buffer: of no account
BytesAt(i, n) == [j \in 1 .. n |-> Byte(i + j - 1)]

Deliver(i, n) == /\ delivered' = delivered \o BytesAt(i, n)
                 /\ body_len' = body_len + n

(* What an earlier response has left in conn->resp or conn->ctx is used for one *)
(* that does not announce it, or has yet to bring it.                           *)
Inherits ==
  \/ transfer_encoding # "none" /\ response.framing # "chunked"
  \/ transfer_encoding = "chunked" /\ chunk_size_str # <<>>
  \/ transfer_encoding = "none" /\ content_length > 0 /\ response.framing # "length"

(* What followed the header in the buffer. *)
HeaderEnd ==
  /\ pc = "header_end"
  /\ misread' = (misread \/ Inherits)
  /\ UNCHANGED <<wireVars, state, respVars, readVars, prev, decoderVars>>
  /\ CASE transfer_encoding = "chunked" ->
            /\ forced_continue' = TRUE
            /\ chunk_terminate_state' = 0
            /\ Goes("body")
            /\ UNCHANGED <<remainVars, body_len, delivered>>
            /\ UNCHANGED <<chunk_size, chunk_state_remain_byte, chunk_size_str>>
       [] transfer_encoding = "none" ->
            /\ Deliver(remain_index, remain_len)
            /\ remain_index' = IF remain_len > 0 THEN 0 ELSE remain_index
            /\ remain_len' = 0
            /\ Goes("check")
            /\ UNCHANGED <<chunkVars, forced_continue>>
       [] OTHER ->
            /\ Goes("check")
            /\ UNCHANGED <<remainVars, chunkVars, loopVars>>

PlainBody ==
  /\ pc = "body" /\ transfer_encoding # "chunked"
  /\ IF transfer_encoding = "none" THEN Deliver(0, read_len) ELSE UNCHANGED <<delivered, body_len>>
  /\ Goes("check")
  /\ UNCHANGED <<wireVars, state, remainVars, chunkVars, respVars, readVars>>
  /\ UNCHANGED <<forced_continue, prev, decoderVars, misread>>

Complete ==
  \/ transfer_encoding = "none" /\ content_length > 0 /\ content_length <= body_len
  \/ transfer_encoding = "chunked" /\ chunk_size = 0

ReadMore ==
  /\ pc = "check" /\ ~Complete
  /\ Goes("read")
  /\ UNCHANGED <<wireVars, state, remainVars, chunkVars, respVars, readVars>>
  /\ UNCHANGED <<loopVars, prev, decoderVars, misread>>

(* More than was announced is an error, exactly that much is the end. *)
EndOfBody ==
  /\ pc = "check" /\ Complete
  /\ IF transfer_encoding = "none" /\ body_len # content_length
     THEN Goes("failed") /\ UNCHANGED state
     ELSE Goes("done") /\ state' = "end"
  /\ UNCHANGED <<wireVars, remainVars, chunkVars, respVars, readVars>>
  /\ UNCHANGED <<loopVars, prev, decoderVars, misread>>

--------------------------------------------------------------------------------
(* The decoder: http_chunked_response_body.  Its labels are remain_size_byte,   *)
(* remain_separator_mid, remain_chunk and remain_separator_end; entering is     *)
(* TRUE at the one it continues at, where the last call ran out of bytes.       *)

Labels == <<"size", "mid", "chunk", "end">>

\* Fault variant: the loop is not told to stop.
NothingReadGoesOn ==
  /\ pc = "body" /\ transfer_encoding = "chunked" /\ read_len = 0
  /\ Goes("check")
  /\ UNCHANGED <<wireVars, state, remainVars, chunkVars, respVars, readVars>>
  /\ UNCHANGED <<loopVars, prev, decoderVars, misread>>

NothingRead ==
  /\ pc = "body" /\ transfer_encoding = "chunked" /\ read_len = 0
  /\ forced_continue' = FALSE
  /\ Goes("check")
  /\ UNCHANGED <<wireVars, state, remainVars, chunkVars, respVars, readVars>>
  /\ UNCHANGED <<body_len, delivered, prev, decoderVars, misread>>

\* Fault variant: what precedes the body in the buffer is counted.
UnreadAll == read_len

(* What is left of the buffer.  A remain_len of 0 is taken to say that all of it *)
(* is, also behind a read that ended with the header.                           *)
Unread == IF remain_len # 0 THEN remain_len ELSE read_len

EnterDecoder ==
  /\ pc = "body" /\ transfer_encoding = "chunked" /\ read_len > 0
  /\ idx' = remain_index
  /\ len' = Unread
  /\ entering' = TRUE
  /\ remain_index' = 0 /\ remain_len' = 0
  /\ misread' = (misread \/ (remain_len = 0 /\ remain_index > 0))
  /\ Goes(Labels[chunk_terminate_state + 1])
  /\ UNCHANGED <<wireVars, state, chunkVars, respVars, readVars, loopVars, prev>>

(* The buffer is used up: the locals are gone, the next call goes on. *)
Interrupted ==
  /\ forced_continue' = TRUE
  /\ Goes("check")
  /\ idx' = 0 /\ len' = 0 /\ entering' = FALSE

(* A chunk size is taken to have four digits.  have is what an earlier call has *)
(* got of it.                                                                   *)
Have == IF entering THEN chunk_size_str ELSE <<>>
Need == 4 - Len(Have)
SizeLine == Have \o BytesAt(idx, Need)
IsLast(s) == s[1] = "0" /\ s[2] = "CR" /\ s[3] = "LF"

CString(s) ==                              \* up to the terminating 0
  SubSeq(s, 1, Min({n \in 1 .. Len(s) : s[n] = "nul"} \cup {Len(s) + 1}) - 1)
Number(d) ==
  LET value[n \in 0 .. Len(d)] ==
        IF n = 0 THEN 0 ELSE 16 * value[n - 1] + HexValue(d[n])
  IN  value[Len(d)]
Strtol(s) ==                               \* leading white space, then digits
  LET start == Min({n \in 1 .. Len(s) : s[n] \notin {"CR", "LF"}} \cup {Len(s) + 1})
      stop == Min({n \in start .. Len(s) : s[n] \notin Digits} \cup {Len(s) + 1})
  IN  Number(SubSeq(s, start, stop - 1))

(* The test looks at three bytes, however few have been read. *)
LastChunk ==
  /\ pc = "size" /\ IsLast(SizeLine) /\ (entering => len >= Need)
  /\ chunk_size_str' = <<"0">>
  /\ chunk_size' = 0
  /\ chunk_terminate_state' = 0
  /\ forced_continue' = FALSE
  /\ Goes("check")
  /\ idx' = 0 /\ len' = 0 /\ entering' = FALSE
  /\ misread' = (misread \/ Len(Have) + len < 3)
  /\ UNCHANGED <<wireVars, state, remainVars, chunk_state_remain_byte, respVars>>
  /\ UNCHANGED <<readVars, body_len, delivered, prev>>

(* At the label it continues at, the call copies all four digits, those that    *)
(* have not been read included.                                                 *)
PartOfSize ==
  /\ pc = "size" /\ len < Need /\ (~entering => ~IsLast(SizeLine))
  /\ chunk_size_str' = CString(IF entering THEN SizeLine ELSE BytesAt(idx, len))
  /\ chunk_terminate_state' = 0
  /\ Interrupted
  /\ misread' = (misread \/ entering)
  /\ UNCHANGED <<wireVars, state, remainVars, chunk_size, chunk_state_remain_byte>>
  /\ UNCHANGED <<respVars, readVars, body_len, delivered, prev>>

(* A size of fewer digits is taken together with the bytes behind it. *)
Size ==
  /\ pc = "size" /\ len >= Need /\ ~IsLast(SizeLine)
  /\ chunk_size_str' = CString(SizeLine)
  /\ chunk_size' = Strtol(CString(SizeLine))
  /\ chunk_terminate_state' = 0
  /\ idx' = idx + Need /\ len' = len - Need
  /\ entering' = FALSE
  /\ Goes("mid")
  /\ misread' = (misread \/ \E n \in 1 .. 4 : SizeLine[n] \notin Digits)
  /\ UNCHANGED <<wireVars, state, remainVars, chunk_state_remain_byte, respVars>>
  /\ UNCHANGED <<readVars, loopVars, prev>>

\* Fault variant: a part that has been consumed is awaited again.
ConsumeForgets(due, after) ==
  IF due > len
  THEN /\ chunk_state_remain_byte' = due
       /\ Interrupted
  ELSE /\ chunk_state_remain_byte' = IF entering THEN 0 ELSE chunk_state_remain_byte
       /\ idx' = idx + due /\ len' = len - due
       /\ entering' = FALSE
       /\ Goes(after)
       /\ UNCHANGED forced_continue

(* At most due bytes are consumed; fewer if the buffer has fewer, and then      *)
(* chunk_state_remain_byte holds what is missing.                               *)
Consume(due, after) ==
  IF due > len
  THEN /\ chunk_state_remain_byte' = due - len
       /\ Interrupted
  ELSE /\ chunk_state_remain_byte' = IF entering THEN 0 ELSE chunk_state_remain_byte
       /\ idx' = idx + due /\ len' = len - due
       /\ entering' = FALSE
       /\ Goes(after)
       /\ UNCHANGED forced_continue

Separator(after) ==
  /\ Consume(IF entering THEN chunk_state_remain_byte ELSE 2, after)
  /\ UNCHANGED <<wireVars, state, remainVars, chunk_size, chunk_size_str, respVars>>
  /\ UNCHANGED <<readVars, body_len, delivered, prev, misread>>

SeparatorMid ==
  /\ pc = "mid"
  /\ chunk_terminate_state' = 1
  /\ Separator("chunk")

ChunkData ==
  /\ pc = "chunk"
  /\ chunk_terminate_state' = 2
  /\ LET due == IF entering THEN chunk_state_remain_byte ELSE chunk_size
     IN  Consume(due, "end") /\ Deliver(idx, Min({due, len}))
  /\ UNCHANGED <<wireVars, state, remainVars, chunk_size, chunk_size_str, respVars>>
  /\ UNCHANGED <<readVars, prev, misread>>

SeparatorEnd ==
  /\ pc = "end"
  /\ chunk_terminate_state' = 3
  /\ Separator("size")

--------------------------------------------------------------------------------
Decoder == NothingRead \/ EnterDecoder \/ LastChunk \/ PartOfSize \/ Size
             \/ SeparatorMid \/ ChunkData \/ SeparatorEnd
Parser == KeepRest \/ FirstLine \/ HeaderLine \/ BadLine \/ BlankLine
Loop == ReadNothing \/ ReadFails \/ HeaderEnd \/ PlainBody \/ ReadMore \/ EndOfBody

Next == Receive \/ ServerCloses \/ NextExchange
          \/ Loop \/ Parser \/ Decoder

Spec == Init /\ [][Next]_vars

(* The worker runs; the server sends what it has announced, and closes the      *)
(* connection when that is how it ends the body.                                *)
Fairness ==
  /\ WF_vars(Loop \/ Parser \/ Decoder)
  /\ WF_vars(Receive)
  /\ WF_vars(ServerCloses /\ response.framing = "close" /\ pos = Len(stream))

FairSpec == Spec /\ Fairness

--------------------------------------------------------------------------------
TypeInv ==
  /\ session \in Sessions /\ nth \in 1 .. Len(session)
  /\ pos \in 0 .. Len(stream) /\ closed \in BOOLEAN
  /\ state \in {"first_line", "header_line", "body", "end"}
  /\ remain_index \in 0 .. Capacity /\ remain_len \in 0 .. Capacity
  /\ chunk_size \in Nat /\ chunk_terminate_state \in 0 .. 3
  /\ chunk_state_remain_byte \in Nat
  /\ chunk_size_str \in Seq(Bytes) /\ Len(chunk_size_str) <= 4
  /\ transfer_encoding \in {"none", "chunked", "not_supported"}
  /\ content_length \in Nat
  /\ buffer \in [0 .. Capacity - 1 -> Bytes]
  /\ read_len \in 0 .. Capacity /\ body_len \in Nat /\ forced_continue \in BOOLEAN
  /\ prev \in 0 .. Capacity /\ (pc = "parse" => prev <= read_len)
  /\ idx \in Nat /\ len \in 0 .. Capacity /\ idx + len <= 2 * Capacity
  /\ entering \in BOOLEAN
  /\ pc \in {"read", "parse", "header_end", "body", "check", "done", "failed", "crashed"}
              \cup {Labels[l] : l \in 1 .. 4}
  /\ delivered \in Seq(Bytes) /\ misread \in BOOLEAN

(* Every variable keeps its type, whatever the code has misread.  As long as it *)
(* has not, the decoder stays inside what has been read: the bytes it has still *)
(* to look at end where the last read ended.                                    *)
Window == pc \in {"size", "mid", "chunk", "end"} => idx + len = read_len
TypeOK == TypeInv /\ (misread \/ Window)

(* The callbacks get the body in order, and the reader returns without an error *)
(* only when they have all of it or the server has broken off, in each exchange *)
(* up to the step, if there is one, in which the code                           *)
(*   - reads on behind the part of a line it has kept, or cannot, the buffer    *)
(*     being full (Read, ReadNothing),                                          *)
(*   - frames the body by what an earlier response left (HeaderEnd),            *)
(*   - decodes a buffer of which nothing is left (EnterDecoder),                *)
(*   - takes bytes for digits, or for the last chunk, that have not been read   *)
(*     or are no digits (LastChunk, PartOfSize, Size).                          *)
(* Nothing else depends on how the body is cut into reads, on what was in the   *)
(* buffer before, or on the responses before it.                                *)
Reader == INSTANCE Transfer WITH
  Payloads <- UNION {{Payload(s[j]) : j \in 1 .. Len(s)} : s \in Sessions},
  payload <- Payload(response),
  got <- delivered,
  cut <- closed /\ pos < Len(stream),
  ended <- pc = "done",
  astray <- misread
ImplementsTransfer == Reader!Spec

(* The loop ends: always when the server has closed the connection, also in the *)
(* middle of a chunk, where forced_continue keeps it going past the end of the  *)
(* stream, and whatever has been misread; and by itself when the body has come  *)
(* and its framing says so.                                                     *)
Framed == response.framing = "chunked" \/ (response.framing = "length" /\ Payload(response) # <<>>)
Returned == pc \in {"done", "failed", "crashed"}
LoopEnds == /\ closed ~> Returned
            /\ (pos = Len(stream) /\ Framed) ~> (Returned \/ misread)

--------------------------------------------------------------------------------
(* What the source says of itself, and does not keep.                           *)

(* http_core.c:169 and 184, "end of buffer, read more data..": a header that    *)
(* does not end with the buffer is read on, and its fields take effect.         *)
HeaderContinued ==
  /\ pc # "crashed"
  /\ state \in {"body", "end"} =>
       /\ transfer_encoding = IF response.framing = "chunked" THEN "chunked" ELSE "none"
       /\ response.framing = "length" => content_length = Len(Payload(response))
=================================================================================
