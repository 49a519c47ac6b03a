------------------------------- MODULE Telnet -------------------------------
(***************************************************************************)
(* The TELNET side of a session: process_network_data_telnet, which takes  *)
(* the framing off what the client sends, and flush_serial_to_net, which   *)
(* puts it on what the UART sends.                                         *)
(*                                                                         *)
(* The client sends any stream an RFC2217 client may send; `peer' is the   *)
(* state of a TELNET decoder reading the same stream, and what that        *)
(* decoder makes of the last byte (`due', `owed') is compared with what    *)
(* the code makes of it (`got', `handled').  Nothing is remembered of the  *)
(* stream, so streams of every length are covered.                         *)
(*                                                                         *)
(* A byte stored past the end of serial_chunk ends the behaviour: what the *)
(* program does after it is undefined.                                     *)
(***************************************************************************)
EXTENDS Integers, Sequences, SequencesExt

CONSTANTS Plain,       \* bytes of data and payloads, IAC excepted
          Others,      \* options that are neither BINARY nor COM_PORT
          MaxPayload,  \* longest payload of a sub-negotiation of the client
          SubMax,      \* sizeof(subopt_buf)
          ChunkSize,   \* sizeof(serial_chunk)
          NetBuf,      \* net_buf_size: the longest read from the network
          SerialBuf    \* serial_buf_size: the longest read from the UART

\* No option has the number of a command, from SB to IAC: none so numbered is
\* assigned, but EXOPL, 255.  serial_chunk has 64 bytes.
ASSUME TelnetAssumption ==
    /\ Plain \subseteq 0..239 /\ Others \subseteq 1..249 \ {44}
    /\ {MaxPayload, SubMax, ChunkSize, NetBuf, SerialBuf} \subseteq Nat \ {0}
    /\ ChunkSize > 1

IAC  == 255
DONT == 254
DO   == 253
WONT == 252
WILL == 251
SB   == 250
SE   == 240
BINARY   == 0
COM_PORT == 44

Verbs   == {WILL, WONT, DO, DONT}
Options == {BINARY, COM_PORT} \cup Others
None    == <<>>

VARIABLES
    \* struct ser2net_session_ctx
    awaiting,   \* awaiting_option
    pending,    \* pending_option_cmd, 0: none
    inSub,      \* in_subneg
    subBuf,     \* subopt_buf[0 .. subopt_pos)
    \* one call of process_network_data_telnet
    taken,      \* bytes of this read processed so far
    chunk,      \* serial_chunk[0 .. serial_pos)
    \* what the last step did
    got,        \* data byte decoded
    handled,    \* payload given to handle_rfc2217_command
    answer,     \* verb and option sent to the client
    frame,      \* what flush_serial_to_net read from the UART and sent
    wrote,      \* what went to the UART, beside what was decoded for it
    \* the client
    peer,       \* where its stream is: text, iac, verb, sub, subiac
    payload,    \* what it has sent of a sub-negotiation
    due,        \* the data byte a TELNET decoder has now
    owed,       \* the payload a TELNET decoder has now
    since       \* data decoded since the last write to the UART

ctx   == <<awaiting, pending, inSub, subBuf>>
ghost == <<peer, payload, due, owed>>
vars  == <<ctx, taken, chunk, got, handled, answer, frame, wrote, ghost, since>>

NoFrame == [read |-> <<>>, wire |-> <<>>]
NoWrite == [data |-> <<>>, decoded |-> <<>>]

Bytes == Plain \cup Options \cup Verbs \cup {IAC, SB, SE}

TypeOK ==
    /\ awaiting \in BOOLEAN /\ inSub \in BOOLEAN
    /\ pending \in Verbs \cup {0}
    /\ subBuf \in Seq(Bytes) /\ Len(subBuf) <= SubMax
    /\ taken \in 0..NetBuf
    /\ chunk \in Seq(Bytes)
    /\ got \in {None} \cup {<<b>> : b \in Bytes}
    /\ handled \in Seq(Bytes) /\ owed \in Seq(Bytes)
    /\ answer \in {None} \cup (Verbs \X Bytes)
    /\ peer \in {"text", "iac", "verb", "sub", "subiac"}

\* A byte has been stored past the end of serial_chunk.
Overrun == Len(chunk) > ChunkSize

Init ==
    /\ awaiting = FALSE /\ pending = 0
    /\ inSub = FALSE /\ subBuf = <<>>
    /\ taken = 0 /\ chunk = <<>> /\ since = <<>>
    /\ got = None /\ handled = None /\ answer = None
    /\ frame = NoFrame /\ wrote = NoWrite
    /\ peer = "text" /\ payload = <<>> /\ due = None /\ owed = None

---------------------------------------------------------------------------
(* The client's next byte, as a TELNET decoder reads it.                   *)

Reads(b, state) == peer' = state /\ due' = None /\ owed' = None

SendsText(b) ==
    /\ peer = "text"
    /\ \/ b \in Plain /\ peer' = "text" /\ due' = <<b>> /\ owed' = None
       \/ b = IAC /\ Reads(b, "iac")
    /\ UNCHANGED payload

SendsCommand(b) ==
    /\ peer = "iac"
    /\ \/ b = IAC /\ peer' = "text" /\ due' = <<IAC>> /\ owed' = None
       \/ b \in Verbs /\ Reads(b, "verb")
       \/ b = SB /\ Reads(b, "sub")
    /\ UNCHANGED payload

SendsOption(b) ==
    /\ peer = "verb"
    /\ b \in Options
    /\ Reads(b, "text")
    /\ UNCHANGED payload

\* The payload starts with the option it belongs to, then the command, of
\* which none has the number of the option.
SendsPayload(b) ==
    /\ peer = "sub"
    /\ IF payload = <<>> THEN b = COM_PORT ELSE b \in Plain \cup {IAC}
    /\ Len(payload) = 1 => b # COM_PORT
    /\ IF b = IAC
       THEN Reads(b, "subiac") /\ UNCHANGED payload
       ELSE /\ Len(payload) <= MaxPayload
            /\ payload' = Append(payload, b)
            /\ Reads(b, "sub")

SendsPayloadEnd(b) ==
    /\ peer = "subiac"
    /\ \/ /\ b = SE
          /\ peer' = "text" /\ due' = None /\ owed' = Tail(payload)
          /\ payload' = <<>>
       \/ /\ b = IAC /\ Len(payload) <= MaxPayload
          /\ payload' = Append(payload, IAC)
          /\ Reads(b, "sub")

Sends(b) ==
    \/ SendsText(b)
    \/ SendsCommand(b)
    \/ SendsOption(b)
    \/ SendsPayload(b)
    \/ SendsPayloadEnd(b)

---------------------------------------------------------------------------
(* process_network_data_telnet on that byte: the alternatives, in order.   *)

Outcome(data, command, reply) ==
    /\ got' = data
    /\ handled' = command
    /\ answer' = reply

Escape(b) ==
    /\ ~inSub /\ ~awaiting /\ b = IAC
    /\ awaiting' = TRUE
    /\ Outcome(None, None, None)
    /\ wrote' = NoWrite
    /\ UNCHANGED <<pending, inSub, subBuf, chunk, since>>

\* A verb is treated as a command of two bytes.
AfterIacForgetsVerb(b) ==
    /\ awaiting
    /\ awaiting' = FALSE
    /\ inSub' = (b = SB \/ (inSub /\ b # SE))
    /\ subBuf' = IF b = SB THEN <<>> ELSE subBuf
    /\ LET data == IF b = IAC THEN <<IAC>> ELSE None
       IN  /\ chunk' = chunk \o data
           /\ since' = since \o data
           /\ Outcome(data, None, None)
    /\ wrote' = NoWrite
    /\ UNCHANGED pending

\* An escaped IAC joins the chunk without the test for a full one, or past the
\* end of it: Overrun.  After a verb awaiting_option stays set besides
\* pending_option_cmd.
AfterIac(b) ==
    /\ awaiting
    /\ awaiting' = (b \in Verbs)
    /\ pending' = IF b \in Verbs THEN b ELSE pending
    /\ inSub' = (b = SB \/ (inSub /\ b # SE))
    /\ subBuf' = IF b = SB THEN <<>> ELSE subBuf
    /\ LET data == IF b = IAC THEN <<IAC>> ELSE None
       IN  /\ chunk' = chunk \o data
           /\ since' = since \o data
           /\ Outcome(data, None, None)
    /\ wrote' = NoWrite

Agreement == [v \in Verbs |-> CASE v = WILL -> DO   [] v = DO   -> WILL
                               [] v = WONT -> DONT [] v = DONT -> WONT]

Refusal == [v \in Verbs |-> IF v \in {WILL, WONT} THEN DONT ELSE WONT]

Option(b) ==
    /\ ~awaiting /\ pending # 0 /\ (inSub \/ b # IAC)
    /\ pending' = 0
    /\ LET verb == IF b \in {BINARY, COM_PORT} THEN Agreement[pending]
                   ELSE Refusal[pending]
       IN  Outcome(None, None, <<verb, b>>)
    /\ wrote' = NoWrite
    /\ UNCHANGED <<awaiting, inSub, subBuf, chunk, since>>

\* subopt_pos is compared with <= instead of <.
StoredOneTooMany(b) ==
    IF Len(subBuf) <= SubMax THEN Append(subBuf, b) ELSE subBuf

Stored(b) == IF Len(subBuf) < SubMax THEN Append(subBuf, b) ELSE subBuf

\* The shortest sub-negotiation is not recognised.
CompleteOffByOne(sub) ==
    Len(sub) > 2 /\ SubSeq(sub, Len(sub) - 1, Len(sub)) = <<IAC, SE>>

Complete(sub) ==
    Len(sub) > 1 /\ SubSeq(sub, Len(sub) - 1, Len(sub)) = <<IAC, SE>>

\* The option stays in front of the command.
CommandWithOption(sub) == SubSeq(sub, 1, Len(sub) - 2)

\* What handle_rfc2217_command is given of a complete sub-negotiation.
Command(sub) ==
    LET data == SubSeq(sub, 1, Len(sub) - 2)
    IN  IF data # <<>> /\ data[1] = COM_PORT THEN Tail(data) ELSE data

SubByte(b) ==
    /\ ~awaiting /\ pending = 0 /\ inSub
    /\ LET sub == Stored(b)
       IN  /\ inSub' = ~Complete(sub)
           /\ subBuf' = IF Complete(sub) THEN <<>> ELSE sub
           /\ Outcome(None, IF Complete(sub) THEN Command(sub) ELSE None, None)
    /\ wrote' = NoWrite
    /\ UNCHANGED <<awaiting, pending, chunk, since>>

\* serial_pos is compared with <= instead of <.
FilledOneTooMany(b) ==
    IF Len(chunk) <= ChunkSize THEN Append(chunk, b) ELSE chunk

\* A byte that finds the chunk full is dropped.
Filled(b) == IF Len(chunk) < ChunkSize THEN Append(chunk, b) ELSE chunk

Written(data, decoded) == [data |-> data, decoded |-> decoded]

\* serial_pos is not reset after the write.
PlainByteNoReset(b) ==
    /\ ~awaiting /\ pending = 0 /\ ~inSub /\ b # IAC
    /\ chunk' = Filled(b)
    /\ IF Len(Filled(b)) = ChunkSize
       THEN /\ since' = <<>>
            /\ wrote' = Written(Filled(b), Append(since, b))
       ELSE /\ since' = Append(since, b)
            /\ wrote' = NoWrite
    /\ Outcome(<<b>>, None, None)
    /\ UNCHANGED <<awaiting, pending, inSub, subBuf>>

\* A full chunk is written at once.
PlainByte(b) ==
    /\ ~awaiting /\ pending = 0 /\ ~inSub /\ b # IAC
    /\ IF Len(Filled(b)) = ChunkSize
       THEN /\ chunk' = <<>> /\ since' = <<>>
            /\ wrote' = Written(Filled(b), Append(since, b))
       ELSE /\ chunk' = Filled(b) /\ since' = Append(since, b)
            /\ wrote' = NoWrite
    /\ Outcome(<<b>>, None, None)
    /\ UNCHANGED <<awaiting, pending, inSub, subBuf>>

Byte(b) ==
    /\ ~Overrun
    /\ taken < NetBuf
    /\ taken' = taken + 1
    /\ Sends(b)
    /\ \/ Escape(b)
       \/ AfterIac(b)
       \/ Option(b)
       \/ SubByte(b)
       \/ PlainByte(b)
    /\ frame' = NoFrame

\* What is left in the chunk is written at the end of the read.
EndOfRead ==
    /\ ~Overrun
    /\ taken > 0
    /\ taken' = 0 /\ chunk' = <<>> /\ since' = <<>>
    /\ wrote' = Written(chunk, since)
    /\ due' = None /\ owed' = None
    /\ Outcome(None, None, None)
    /\ frame' = NoFrame
    /\ UNCHANGED <<ctx, peer, payload>>

---------------------------------------------------------------------------
(* flush_serial_to_net                                                     *)

\* IAC is not doubled.
PutPlain(wire, b) == IF Len(wire) < NetBuf - 1 THEN Append(wire, b) ELSE wire

\* One turn of the loop: what has no room in net_buf is dropped.
Put(wire, b) ==
    IF Len(wire) >= NetBuf - 1 THEN wire
    ELSE IF Len(wire) = NetBuf - 2 \/ b # IAC THEN Append(wire, b)
    ELSE wire \o <<b, b>>

Flush(read) ==
    /\ taken = 0
    /\ frame' = [read |-> read, wire |-> FoldLeft(Put, <<>>, read)]
    /\ wrote' = NoWrite
    /\ due' = None /\ owed' = None
    /\ Outcome(None, None, None)
    /\ UNCHANGED <<ctx, taken, chunk, since, peer, payload>>

\* The client leaves, or a write fails, and the next one gets a zeroed context.
NewSession ==
    /\ ~Overrun
    /\ awaiting' = FALSE /\ pending' = 0
    /\ inSub' = FALSE /\ subBuf' = <<>>
    /\ taken' = 0 /\ chunk' = <<>> /\ since' = <<>>
    /\ peer' = "text" /\ payload' = <<>> /\ due' = None /\ owed' = None
    /\ Outcome(None, None, None)
    /\ frame' = NoFrame /\ wrote' = NoWrite

UartReads == UNION {[1..n -> Plain \cup {IAC}] : n \in 1..SerialBuf}

Next ==
    \/ \E b \in Bytes : Byte(b)
    \/ EndOfRead
    \/ \E read \in UartReads : Flush(read)
    \/ NewSession

Spec == Init /\ [][Next]_vars

---------------------------------------------------------------------------
(* Properties                                                              *)

\* subopt_buf is full without its IAC SE, which then never comes.
Stuck == Len(subBuf) = SubMax

\* The framing state follows the stream: the code expects the rest of a
\* command, or of a sub-negotiation, exactly when a TELNET decoder does.  Only
\* a sub-negotiation longer than subopt_buf leaves it behind.
InStep ==
    Stuck \/ /\ awaiting <=> peer \in {"iac", "verb"}
             /\ inSub <=> peer \in {"sub", "subiac"}

\* Data given to the UART is data of the client, and the same byte: no byte of
\* a command, an option or a sub-negotiation gets through.
NothingInvented == got # None => got = due

\* A sub-negotiation reaches handle_rfc2217_command as the client meant it, if
\* its payload holds no IAC, whether the COM_PORT octet in front was taken for
\* the option of a verb before it or not.
CommandsIntact ==
    owed # None /\ ~Stuck /\ ~Contains(owed, IAC) => handled = owed

\* A write to the UART carries the data decoded since the last one, in order
\* and complete; an escaped IAC that fills the chunk costs the byte after it,
\* and nothing more.
WritesWhatItDecodes ==
    /\ IsPrefix(wrote.data, wrote.decoded)
    /\ Len(wrote.data) < ChunkSize => wrote.data = wrote.decoded
    /\ Len(wrote.decoded) <= Len(wrote.data) + 1

\* serial_chunk is overrun, by an escaped IAC, only in a read more than two bytes
\* longer than it: every other byte finds room or is dropped.
OverrunNeedsLongRead == Overrun => taken > ChunkSize + 2

Escaped(read) ==
    FlattenSeq([i \in DOMAIN read |->
        IF read[i] = IAC THEN <<IAC, IAC>> ELSE <<read[i]>>])

\* The client is sent what the UART received with IAC doubled, cut at
\* net_buf_size - 1 bytes.
WireCarriesRead ==
    /\ Len(frame.wire) < NetBuf
    /\ IsPrefix(frame.wire, Escaped(frame.read))
    /\ Len(frame.wire) < NetBuf - 1 => frame.wire = Escaped(frame.read)

\* "Parses TELNET commands, ... and writes raw bytes to the UART once escaping
\* has been removed" (session_ops.c:447): every data byte of the client is
\* decoded as that byte.
DataIntact == due # None => got = due
=============================================================================
