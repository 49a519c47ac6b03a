----------------------------- MODULE TelnetProofs -----------------------------
(***************************************************************************)
(* Theorems about Telnet for every set of data bytes and options and every *)
(* size of the buffers: the decoder stays in step with the client's stream *)
(* wherever reads cut it, gives the UART nothing but data, hands on the    *)
(* commands as they were sent, and writes what it decodes.                 *)
(***************************************************************************)
EXTENDS Telnet, WellFoundedInduction, TLAPS

---------------------------------------------------------------------------
(* The inductive invariant.                                                *)

\* The types.
Typed ==
    /\ awaiting \in BOOLEAN /\ inSub \in BOOLEAN
    /\ pending \in Verbs \cup {0}
    /\ subBuf \in Seq(Bytes) /\ Len(subBuf) <= SubMax
    /\ taken \in 0..NetBuf
    /\ chunk \in Seq(Bytes) /\ since \in Seq(Bytes)
    /\ got \in {None} \cup {<<b>> : b \in Bytes}
    /\ handled \in Seq(Bytes) /\ owed \in Seq(Bytes)
    /\ answer \in {None} \cup (Verbs \X Bytes)
    /\ peer \in {"text", "iac", "verb", "sub", "subiac"}
    /\ payload \in Seq(Bytes)

\* The client's sub-negotiation: something is in front of an IAC, the option
\* comes first and no option second.
Client ==
    /\ peer \notin {"sub", "subiac"} => payload = <<>>
    /\ peer = "subiac" => payload # <<>>
    /\ payload # <<>> => payload[1] = COM_PORT
    /\ Len(payload) > 1 => payload[2] # COM_PORT

\* The decoder's own state: one thing at a time, the buffer is empty outside a
\* sub-negotiation, and what is in it does not end one.
Decoder ==
    /\ ~(awaiting /\ inSub)
    /\ ~inSub => subBuf = <<>>
    /\ ~Complete(subBuf)

\* A verb that is still pending inside a sub-negotiation takes its first byte.
PendingFirst == ~Stuck /\ inSub /\ pending # 0 => payload = <<>>

\* The IAC of the client is the last byte in the buffer.
IacLast == ~Stuck /\ peer = "subiac" => subBuf # <<>> /\ subBuf[Len(subBuf)] = IAC

\* Without an IAC in it the payload is in the buffer, but for a first byte that
\* a pending verb has taken.
Collected(sub) == sub = payload \/ (payload # <<>> /\ sub = Tail(payload))

BufferFollows ==
    ~Stuck /\ ~Contains(payload, IAC) =>
        /\ peer = "sub" => Collected(subBuf)
        /\ peer = "subiac" => Collected(SubSeq(subBuf, 1, Len(subBuf) - 1))

IInv ==
    /\ Typed /\ Client /\ Decoder
    /\ InStep /\ PendingFirst /\ IacLast /\ BufferFollows
    /\ NothingInvented /\ CommandsIntact

\* The bytes of a read outnumber those it has put into the chunk: by one when
\* an IAC is waiting, and when the chunk is full, as only an escaped IAC fills
\* it for longer than a step; by two when an IAC waits before a full chunk.
Counted ==
    LET n == Len(chunk) IN
    /\ chunk # <<>> =>
         /\ n <= taken
         /\ awaiting \/ n = ChunkSize  => n + 1 <= taken
         /\ awaiting /\ n = ChunkSize => n + 2 <= taken
    /\ OverrunNeedsLongRead

---------------------------------------------------------------------------
(* Lemmas about bytes and sequences of them.                               *)

\* The kinds of bytes are told apart by their numbers.
LEMMA Kinds ==
    /\ Plain \subseteq Bytes /\ Options \subseteq Bytes /\ Verbs \subseteq Bytes
    /\ {IAC, SB, SE, COM_PORT} \subseteq Bytes
    /\ IAC \notin Plain \cup Options \cup Verbs
    /\ SE \notin Plain \cup Verbs
    /\ SB \notin Plain \cup Options \cup Verbs
    /\ \A v \in Verbs : v \notin Plain \cup Options
    /\ IAC # SE /\ IAC # SB /\ COM_PORT # IAC /\ COM_PORT # SE /\ SB # SE
    /\ 0 \notin Verbs
  BY TelnetAssumption
     DEF Bytes, Options, Verbs, IAC, DONT, DO, WONT, WILL, SB, SE, BINARY, COM_PORT

\* The sizes are numbers.
LEMMA Sizes ==
    /\ MaxPayload \in Nat \ {0} /\ SubMax \in Nat \ {0}
    /\ ChunkSize \in Nat \ {0} /\ NetBuf \in Nat \ {0}
    /\ ChunkSize > 1
  BY TelnetAssumption

\* A sub-negotiation is complete when IAC SE ends it.
LEMMA CompleteIs ==
    ASSUME NEW s \in Seq(Bytes)
    PROVE  Complete(s) <=> Len(s) > 1 /\ s[Len(s) - 1] = IAC /\ s[Len(s)] = SE
  <1>1. CASE Len(s) > 1
    <2> DEFINE e == SubSeq(s, Len(s) - 1, Len(s))
    <2>1. e \in Seq(Bytes) /\ Len(e) = 2 /\ e[1] = s[Len(s) - 1] /\ e[2] = s[Len(s)]
      BY <1>1
    <2> HIDE DEF e
    <2>2. e = <<IAC, SE>> <=> e[1] = IAC /\ e[2] = SE
      BY <2>1
    <2> QED BY <1>1, <2>1, <2>2 DEF Complete, e
  <1>2. CASE ~(Len(s) > 1)
    BY <1>2 DEF Complete
  <1> QED BY <1>1, <1>2

\* Only the empty sequence has no length.
LEMMA Lengths ==
    ASSUME NEW s \in Seq(Bytes)
    PROVE  /\ Len(s) \in Nat /\ (s = <<>> <=> Len(s) = 0)
           /\ s = <<>> \/ Len(s) = 1 \/ Len(s) > 1
  <1>1. Len(s) \in Nat
    OBVIOUS
  <1>2. s = <<>> => Len(s) = 0
    OBVIOUS
  <1>3. Len(s) = 0 => s = <<>>
    OBVIOUS
  <1>4. ASSUME NEW n \in Nat PROVE n = 0 \/ n = 1 \/ n > 1
    OBVIOUS
  <1> QED BY <1>1, <1>2, <1>3, <1>4

\* The empty sequence fits everywhere.
LEMMA Empty == <<>> \in Seq(Bytes) /\ Len(<<>>) = 0 /\ Len(<<>>) <= SubMax
  <1>1. <<>> \in Seq(Bytes) /\ Len(<<>>) = 0
    OBVIOUS
  <1>2. 0 <= SubMax
    BY Sizes
  <1> QED BY <1>1, <1>2

\* What one more byte does to a sequence.
LEMMA Appended ==
    ASSUME NEW s \in Seq(Bytes), NEW b \in Bytes
    PROVE  /\ Append(s, b) \in Seq(Bytes) /\ Len(Append(s, b)) = Len(s) + 1
           /\ Append(s, b)[Len(s) + 1] = b
           /\ \A i \in 1..Len(s) : Append(s, b)[i] = s[i]
           /\ SubSeq(Append(s, b), 1, Len(s)) = s
           /\ s # <<>> => Tail(Append(s, b)) = Append(Tail(s), b)
           /\ s = <<>> => Append(s, b) = <<b>> /\ Tail(Append(s, b)) = <<>>
  <1>1. /\ Append(s, b) \in Seq(Bytes) /\ Len(Append(s, b)) = Len(s) + 1
        /\ Append(s, b)[Len(s) + 1] = b
        /\ \A i \in 1..Len(s) : Append(s, b)[i] = s[i]
    OBVIOUS
  <1>2. SubSeq(Append(s, b), 1, Len(s)) = s
    OBVIOUS
  <1>3. s # <<>> => Tail(Append(s, b)) = Append(Tail(s), b)
    OBVIOUS
  <1>4. s = <<>> => Append(s, b) = <<b>> /\ Tail(Append(s, b)) = <<>>
    OBVIOUS
  <1> QED BY <1>1, <1>2, <1>3, <1>4

\* No IAC is gained or lost with another byte.
LEMMA AppendedIac ==
    ASSUME NEW s \in Seq(Bytes), NEW b \in Bytes
    PROVE  /\ Contains(Append(s, b), IAC) <=> Contains(s, IAC) \/ b = IAC
           /\ s # <<>> => (Contains(s, IAC) <=> s[1] = IAC \/ Contains(Tail(s), IAC))
  <1>1. Contains(Append(s, b), IAC) <=> Contains(s, IAC) \/ b = IAC
    BY DEF Contains
  <1>2. ASSUME s # <<>>, Contains(s, IAC), s[1] # IAC PROVE Contains(Tail(s), IAC)
    <2>1. PICK i \in 1..Len(s) : s[i] = IAC
      BY <1>2 DEF Contains
    <2>2. i - 1 \in 1..Len(Tail(s)) /\ Tail(s)[i - 1] = IAC
      BY <1>2, <2>1
    <2> QED BY <2>2 DEF Contains
  <1>3. ASSUME s # <<>>, Contains(Tail(s), IAC) PROVE Contains(s, IAC)
    <2>1. PICK i \in 1..Len(Tail(s)) : Tail(s)[i] = IAC
      BY <1>3 DEF Contains
    <2>2. i + 1 \in 1..Len(s) /\ s[i + 1] = IAC
      BY <1>3, <2>1
    <2> QED BY <2>2 DEF Contains
  <1>4. s # <<>> /\ s[1] = IAC => Contains(s, IAC)
    BY DEF Contains
  <1> QED BY <1>1, <1>2, <1>3, <1>4

\* A byte stored in subopt_buf is its last, while there is room.
LEMMA StoredIs ==
    ASSUME Typed, NEW b \in Bytes
    PROVE  /\ Stored(b) \in Seq(Bytes) /\ Len(Stored(b)) <= SubMax
           /\ ~Stuck => Stored(b) = Append(subBuf, b) /\ Len(subBuf) < SubMax
           /\ Stuck => Stored(b) = subBuf
  BY Sizes DEF Typed, Stored, Stuck

\* Once full, subopt_buf stays so, and the session inside the sub-negotiation.
LEMMA StuckStays ==
    ASSUME Typed, Decoder, Stuck
    PROVE  inSub /\ ~awaiting
  BY Sizes DEF Typed, Decoder, Stuck

---------------------------------------------------------------------------
(* The initial states, and the client.                                     *)

\* Between two connections nothing is known of a stream.
LEMMA EmptyInv ==
    ASSUME ~awaiting, pending = 0, ~inSub, subBuf = <<>>, taken = 0, chunk = <<>>,
           since = <<>>, got = None, handled = None, answer = None,
           peer = "text", payload = <<>>, due = None, owed = None,
           awaiting \in BOOLEAN, inSub \in BOOLEAN
    PROVE  IInv
  <1> USE Sizes
  <1>1. Typed
    BY DEF Typed, None
  <1>2. Client /\ PendingFirst /\ IacLast /\ BufferFollows
    BY DEF Client, PendingFirst, IacLast, BufferFollows
  <1>3. Decoder
    BY DEF Decoder, Complete
  <1>4. InStep /\ NothingInvented /\ CommandsIntact
    BY DEF InStep, NothingInvented, CommandsIntact
  <1> QED BY <1>1, <1>2, <1>3, <1>4 DEF IInv

\* The invariants hold in the initial states.
LEMMA InitInv == Init => IInv /\ Counted
  <1>1. Init => IInv
    BY EmptyInv DEF Init
  <1>2. Init => Counted
    BY Sizes, Empty DEF Init, Counted, OverrunNeedsLongRead, Overrun
  <1> QED BY <1>1, <1>2

\* The client's part of a step.
LEMMA ClientKeeps ==
    ASSUME IInv, NEW b \in Bytes, Sends(b)
    PROVE  /\ Client' /\ payload' \in Seq(Bytes)
           /\ owed' \in Seq(Bytes)
           /\ peer' \in {"text", "iac", "verb", "sub", "subiac"}
  <1> USE DEF IInv, Typed, Client, Reads, None
  <1>1. CASE SendsText(b) \/ SendsCommand(b) \/ SendsOption(b)
    BY <1>1 DEF SendsText, SendsCommand, SendsOption
  <1>2. CASE SendsPayload(b)
    <2>1. CASE b = IAC
      BY <1>2, <2>1, Kinds DEF SendsPayload
    <2>2. CASE b # IAC
      <3>1. payload' = Append(payload, b) /\ peer' = "sub" /\ owed' = <<>>
        BY <1>2, <2>2 DEF SendsPayload
      <3>2. payload = <<>> => b = COM_PORT
        BY <1>2 DEF SendsPayload
      <3>3. Len(payload) = 1 => b # COM_PORT
        BY <1>2 DEF SendsPayload
      <3>4. /\ payload' \in Seq(Bytes) /\ Len(payload') = Len(payload) + 1
            /\ payload'[Len(payload) + 1] = b
            /\ \A i \in 1..Len(payload) : payload'[i] = payload[i]
        BY <3>1, Appended
      <3>5. payload = <<>> \/ Len(payload) = 1 \/ Len(payload) > 1
        BY Lengths
      <3>6. CASE payload = <<>>
        BY <3>1, <3>2, <3>6
      <3>7. CASE Len(payload) = 1
        BY <3>1, <3>3, <3>4, <3>7
      <3>8. CASE Len(payload) > 1
        BY <3>1, <3>4, <3>8
      <3> QED BY <3>5, <3>6, <3>7, <3>8
    <2> QED BY <2>1, <2>2
  <1>3. CASE SendsPayloadEnd(b)
    <2>1. CASE b = SE
      <3>1. peer' = "text" /\ owed' = Tail(payload) /\ payload' = <<>> /\ payload # <<>>
        BY <1>3, <2>1, Kinds DEF SendsPayloadEnd
      <3>2. Tail(payload) \in Seq(Bytes)
        BY <3>1
      <3> QED BY <3>1, <3>2
    <2>2. CASE b # SE
      <3>1. payload' = Append(payload, IAC) /\ peer' = "sub" /\ owed' = <<>> /\ payload # <<>>
        BY <1>3, <2>2 DEF SendsPayloadEnd
      <3> QED BY <3>1, Appended, Kinds
    <2> QED BY <2>1, <2>2
  <1> QED BY <1>1, <1>2, <1>3 DEF Sends

---------------------------------------------------------------------------
(* The bytes.                                                              *)

\* IAC outside a command: the client is after an IAC, too.
LEMMA EscapeKeeps ==
    ASSUME IInv, NEW b \in Bytes, Sends(b), Escape(b), taken' \in 0..NetBuf
    PROVE  IInv'
  <1> USE DEF IInv, Escape, Outcome
  <1>1. ~Stuck
    BY StuckStays
  <1>2. /\ peer = "text" /\ peer' = "iac" /\ payload' = payload /\ due' = None /\ owed' = None
    <2>1. peer = "text"
      BY <1>1 DEF InStep, Typed
    <2> QED BY <2>1, Kinds DEF Sends, SendsText, SendsCommand, SendsOption, SendsPayload,
                              SendsPayloadEnd, Reads
  <1>3. Typed'
    BY <1>2, ClientKeeps DEF Typed, None
  <1>4. Client' /\ Decoder'
    BY ClientKeeps DEF Decoder
  <1>5. inSub' = FALSE /\ awaiting' = TRUE
    BY DEF Typed
  <1>6. InStep'
    BY <1>2, <1>5 DEF InStep
  <1>7. PendingFirst' /\ IacLast' /\ BufferFollows'
    BY <1>2, <1>5 DEF PendingFirst, IacLast, BufferFollows
  <1>8. NothingInvented' /\ CommandsIntact'
    BY <1>2 DEF NothingInvented, CommandsIntact
  <1> QED BY <1>3, <1>4, <1>6, <1>7, <1>8

\* The byte after IAC, and the option after a verb.
LEMMA AfterIacKeeps ==
    ASSUME IInv, NEW b \in Bytes, Sends(b), AfterIac(b), taken' \in 0..NetBuf
    PROVE  IInv'
  <1> USE DEF IInv, AfterIac, Outcome
  <1>1. ~Stuck /\ ~inSub /\ subBuf = <<>>
    BY StuckStays DEF Decoder
  <1>2. peer \in {"iac", "verb"} /\ payload = <<>>
    BY <1>1 DEF InStep, Typed, Client
  <1>3. SendsCommand(b) \/ SendsOption(b)
    BY <1>2 DEF Sends, SendsText, SendsPayload, SendsPayloadEnd
  <1>4. payload' = <<>> /\ owed' = <<>> /\ subBuf' = <<>>
    BY <1>1, <1>2, <1>3 DEF SendsCommand, SendsOption, Reads, None
  <1>5. /\ awaiting' <=> peer' \in {"iac", "verb"}
        /\ inSub' <=> peer' \in {"sub", "subiac"}
        /\ peer' # "subiac"
        /\ ~(awaiting' /\ inSub')
    <2>1. (inSub' <=> b = SB) /\ (awaiting' <=> b \in Verbs)
      BY <1>1
    <2>2. CASE b = IAC \/ SendsOption(b)
      <3>1. peer' = "text" /\ b # SB /\ b \notin Verbs
        BY <1>3, <2>2, Kinds DEF SendsCommand, SendsOption, Reads
      <3> QED BY <2>1, <3>1
    <2>3. CASE b \in Verbs /\ SendsCommand(b)
      <3>1. peer' = "verb" /\ b # SB
        BY <2>3, Kinds DEF SendsCommand, Reads
      <3> QED BY <2>1, <2>3, <3>1
    <2>4. CASE b = SB /\ SendsCommand(b)
      <3>1. peer' = "sub" /\ b \notin Verbs
        BY <2>4, Kinds DEF SendsCommand, Reads
      <3> QED BY <2>1, <2>4, <3>1
    <2> QED BY <1>3, <2>2, <2>3, <2>4 DEF SendsCommand
  <1>6. got' # None => got' = due'
    BY <1>3, Kinds DEF SendsCommand, SendsOption, None
  <1>7. Typed'
    <2>1. <<IAC>> \in {<<c>> : c \in Bytes} /\ None \in Seq(Bytes) /\ <<IAC>> \in Seq(Bytes)
      BY Kinds DEF None
    <2>2. got' \in {None} \cup {<<c>> : c \in Bytes} /\ handled' = None /\ answer' = None
      BY <2>1
    <2>3. chunk' \in Seq(Bytes) /\ since' \in Seq(Bytes)
      BY <2>1 DEF Typed
    <2>4. subBuf' \in Seq(Bytes) /\ Len(subBuf') <= SubMax
      BY <1>4, Empty
    <2> QED BY <2>1, <2>2, <2>3, <2>4, ClientKeeps DEF Typed
  <1>8. Decoder'
    BY <1>4, <1>5 DEF Decoder, Complete
  <1>9. Client'
    BY ClientKeeps
  <1>10. InStep' /\ PendingFirst' /\ IacLast'
    BY <1>4, <1>5 DEF InStep, PendingFirst, IacLast
  <1>11. BufferFollows'
    BY <1>4, <1>5 DEF BufferFollows, Collected
  <1>12. NothingInvented' /\ CommandsIntact'
    BY <1>4, <1>6 DEF NothingInvented, CommandsIntact, None
  <1> QED BY <1>7, <1>8, <1>9, <1>10, <1>11, <1>12

\* The option of a verb, or what stands where the code looks for it.
LEMMA OptionKeeps ==
    ASSUME IInv, NEW b \in Bytes, Sends(b), Option(b), taken' \in 0..NetBuf
    PROVE  IInv'
  <1> USE DEF IInv, Option, Outcome
  <1>1. /\ UNCHANGED <<awaiting, inSub, subBuf, chunk, since>> /\ pending' = 0
        /\ got' = None /\ handled' = None
    OBVIOUS
  <1>2. answer' \in Verbs \X Bytes
    <2>1. pending \in Verbs
      BY DEF Typed
    <2>2. Agreement[pending] \in Verbs /\ Refusal[pending] \in Verbs
      BY <2>1 DEF Agreement, Refusal, Verbs, DONT, DO, WONT, WILL
    <2> QED BY <2>2
  <1>3. Typed'
    BY <1>1, <1>2, ClientKeeps DEF Typed, None
  <1>4. Client' /\ Decoder'
    BY <1>1, ClientKeeps DEF Decoder
  <1>5. PendingFirst' /\ NothingInvented'
    BY <1>1 DEF PendingFirst, NothingInvented
  <1>6. CASE Stuck
    BY <1>1, <1>3, <1>4, <1>5, <1>6
       DEF InStep, IacLast, BufferFollows, CommandsIntact, Stuck
  <1>7. CASE ~Stuck /\ inSub
    <2>1. payload = <<>> /\ peer = "sub"
      BY <1>7 DEF PendingFirst, InStep, Client, Typed
    <2>2. b = COM_PORT /\ payload' = <<COM_PORT>> /\ peer' = "sub" /\ owed' = None
      <3>1. SendsPayload(b)
        BY <2>1 DEF Sends, SendsText, SendsCommand, SendsOption, SendsPayloadEnd
      <3>2. payload' = Append(<<>>, b)
        BY <2>1, <3>1, Kinds DEF SendsPayload
      <3> QED BY <2>1, <3>1, <3>2, Kinds, Appended DEF SendsPayload, Reads, Typed
    <2>3. subBuf = <<>>
      <3>1. ~Contains(payload, IAC)
        BY <2>1 DEF Contains
      <3> QED BY <1>7, <2>1, <3>1 DEF BufferFollows, Collected
    <2>4. Tail(<<COM_PORT>>) = <<>> /\ <<COM_PORT>> # <<>>
      OBVIOUS
    <2>5. InStep' /\ IacLast' /\ CommandsIntact'
      BY <1>1, <1>7, <2>1, <2>2 DEF InStep, IacLast, CommandsIntact
    <2>6. BufferFollows'
      BY <1>1, <2>2, <2>3, <2>4 DEF BufferFollows, Collected
    <2> QED BY <1>3, <1>4, <1>5, <2>5, <2>6
  <1>8. CASE ~Stuck /\ ~inSub
    <2>1. peer = "text"
      BY <1>8 DEF InStep, Typed
    <2>2. b \in Plain /\ peer' = "text" /\ owed' = None /\ payload' = payload
      BY <1>8, <2>1 DEF Sends, SendsText, SendsCommand, SendsOption, SendsPayload,
                        SendsPayloadEnd
    <2>3. InStep' /\ IacLast' /\ BufferFollows' /\ CommandsIntact'
      BY <1>1, <1>8, <2>1, <2>2 DEF InStep, IacLast, BufferFollows, CommandsIntact
    <2> QED BY <1>3, <1>4, <1>5, <2>3
  <1> QED BY <1>6, <1>7, <1>8

\* What the buffer has when the client ends its sub-negotiation: what is handed
\* on is the payload behind the option.
LEMMA CommandIs ==
    ASSUME IInv, ~Stuck, peer = "subiac", ~Contains(Tail(payload), IAC)
    PROVE  Command(Append(subBuf, SE)) = Tail(payload)
  <1> DEFINE d == SubSeq(subBuf, 1, Len(subBuf) - 1)
  <1>1. subBuf \in Seq(Bytes) /\ subBuf # <<>> /\ payload \in Seq(Bytes) /\ payload # <<>>
    BY DEF IInv, Typed, IacLast, Client
  <1>2. SubSeq(Append(subBuf, SE), 1, Len(Append(subBuf, SE)) - 2) = d
    BY <1>1, Kinds
  <1>3. ~Contains(payload, IAC)
    BY <1>1, AppendedIac, Kinds DEF IInv, Client
  <1>4. Collected(d)
    BY <1>3 DEF IInv, BufferFollows
  <1>5. payload[1] = COM_PORT /\ (Len(payload) > 1 => payload[2] # COM_PORT)
    BY <1>1 DEF IInv, Client
  <1>6. Tail(payload) # <<>> => Len(payload) > 1 /\ Tail(payload)[1] = payload[2]
    BY <1>1
  <1> HIDE DEF d
  <1>7. Command(Append(subBuf, SE)) =
          IF d # <<>> /\ d[1] = COM_PORT THEN Tail(d) ELSE d
    BY <1>2 DEF Command
  <1>8. CASE d = payload
    BY <1>1, <1>5, <1>7, <1>8
  <1>9. CASE d = Tail(payload)
    BY <1>5, <1>6, <1>7, <1>9
  <1> QED BY <1>4, <1>8, <1>9 DEF Collected

\* A byte inside a sub-negotiation that does not complete it.
LEMMA SubByteGoesOn ==
    ASSUME IInv, NEW b \in Bytes, Sends(b), SubByte(b), taken' \in 0..NetBuf,
           ~Stuck, ~Complete(Append(subBuf, b)), peer' \in {"sub", "subiac"}
    PROVE  IInv'
  <1> USE DEF IInv, SubByte, Outcome
  <1>1. /\ Stored(b) = Append(subBuf, b) /\ Stored(b) \in Seq(Bytes)
        /\ Len(Stored(b)) <= SubMax /\ subBuf \in Seq(Bytes) /\ payload \in Seq(Bytes)
    BY StoredIs DEF Typed
  <1>2. /\ inSub' /\ subBuf' = Append(subBuf, b) /\ pending' = 0 /\ awaiting' = FALSE
        /\ got' = None /\ handled' = None /\ answer' = None
        /\ inSub' \in BOOLEAN
    BY <1>1 DEF Typed
  <1>3. peer \in {"sub", "subiac"}
    BY DEF InStep, Typed
  <1>4. SendsPayload(b) \/ SendsPayloadEnd(b)
    BY <1>3 DEF Sends, SendsText, SendsCommand, SendsOption
  <1>5. owed' = None
    BY <1>4 DEF SendsPayload, SendsPayloadEnd, Reads
  <1>6. /\ peer = "sub" /\ b = IAC /\ peer' = "subiac" /\ payload' = payload
           /\ payload # <<>>
        \/ /\ peer = "sub" /\ b # IAC /\ peer' = "sub" /\ payload' = Append(payload, b)
        \/ /\ peer = "subiac" /\ b = IAC /\ peer' = "sub"
           /\ payload' = Append(payload, IAC)
    BY <1>4, Kinds DEF SendsPayload, SendsPayloadEnd, Reads
  <1>7. Typed'
    BY <1>1, <1>2, ClientKeeps DEF Typed, None
  <1>8. Client' /\ InStep' /\ PendingFirst' /\ NothingInvented' /\ CommandsIntact'
    BY <1>2, <1>5, ClientKeeps
       DEF InStep, PendingFirst, NothingInvented, CommandsIntact
  <1>9. Decoder'
    BY <1>2 DEF Decoder
  <1>10. IacLast'
    BY <1>1, <1>2, <1>6, Appended, Lengths DEF IacLast
  <1>11. BufferFollows'
    <2>1. CASE peer = "subiac"
      <3>1. payload' = Append(payload, IAC)
        BY <1>6, <2>1
      <3>2. Contains(payload', IAC)
        BY <1>1, <3>1, AppendedIac, Kinds
      <3> QED BY <3>2 DEF BufferFollows
    <2>2. CASE peer = "sub" /\ b = IAC
      <3>1. SubSeq(subBuf', 1, Len(subBuf') - 1) = subBuf
        BY <1>1, <1>2, Appended
      <3> QED BY <1>6, <2>2, <3>1 DEF BufferFollows, Collected
    <2>3. CASE peer = "sub" /\ b # IAC
      <3>1. peer' = "sub" /\ payload' = Append(payload, b)
        BY <1>6, <2>3
      <3>2. ~Contains(payload', IAC) => Collected(subBuf)
        BY <1>1, <2>3, <3>1, AppendedIac DEF BufferFollows
      <3>3. subBuf = payload => subBuf' = payload'
        BY <1>2, <3>1
      <3>4. payload # <<>> /\ subBuf = Tail(payload) =>
              payload' # <<>> /\ subBuf' = Tail(payload')
        BY <1>1, <1>2, <3>1, Appended, Lengths
      <3> QED BY <3>1, <3>2, <3>3, <3>4 DEF BufferFollows, Collected
    <2> QED BY <1>3, <2>1, <2>2, <2>3
  <1> QED BY <1>7, <1>8, <1>9, <1>10, <1>11

\* A byte inside a sub-negotiation: it completes it when the client has.
LEMMA SubByteKeeps ==
    ASSUME IInv, NEW b \in Bytes, Sends(b), SubByte(b), taken' \in 0..NetBuf
    PROVE  IInv'
  <1> USE DEF IInv, SubByte, Outcome
  <1>1. CASE Stuck
    <2>1. Stored(b) = subBuf /\ ~Complete(subBuf)
      BY <1>1, StoredIs DEF Decoder
    <2>2. /\ subBuf' = subBuf /\ inSub' = TRUE /\ awaiting' = FALSE
          /\ got' = None /\ handled' = None /\ answer' = None
      BY <2>1 DEF Typed
    <2>3. Stuck'
      BY <1>1, <2>2 DEF Stuck
    <2>4. Typed'
      BY <2>2, ClientKeeps DEF Typed, None
    <2>5. Decoder'
      BY <2>1, <2>2 DEF Decoder
    <2> QED BY <2>2, <2>3, <2>4, <2>5, ClientKeeps
            DEF InStep, PendingFirst, IacLast, BufferFollows, NothingInvented, CommandsIntact
  <1>2. CASE ~Stuck
    <2>1. /\ Stored(b) = Append(subBuf, b) /\ Stored(b) \in Seq(Bytes)
          /\ subBuf \in Seq(Bytes) /\ payload \in Seq(Bytes)
      BY <1>2, StoredIs DEF Typed
    <2>2. peer \in {"sub", "subiac"}
      BY <1>2 DEF InStep, Typed
    <2>3. CASE peer = "subiac" /\ b = SE
      <3>1. /\ peer' = "text" /\ owed' = Tail(payload) /\ payload' = <<>>
        BY <2>3, Kinds DEF Sends, SendsText, SendsCommand, SendsOption, SendsPayload,
                           SendsPayloadEnd, Reads
      <3>2. Complete(Append(subBuf, b))
        <4>1. subBuf # <<>> /\ subBuf[Len(subBuf)] = IAC /\ Len(subBuf) > 0
          BY <1>2, <2>1, <2>3, Lengths DEF IacLast
        <4>2. /\ Append(subBuf, b) \in Seq(Bytes) /\ Len(Append(subBuf, b)) = Len(subBuf) + 1
              /\ Append(subBuf, b)[Len(subBuf) + 1] = SE
              /\ Append(subBuf, b)[Len(subBuf)] = IAC
          BY <2>1, <2>3, <4>1, Appended
        <4>3. Len(subBuf) \in Nat /\ Len(subBuf) + 1 > 1 /\ (Len(subBuf) + 1) - 1 = Len(subBuf)
          BY <2>1, <4>1, Lengths
        <4> HIDE DEF IInv, SubByte
        <4> QED BY <2>3, <4>2, <4>3, CompleteIs
      <3>3. /\ inSub' = FALSE /\ subBuf' = <<>> /\ awaiting' = FALSE
            /\ got' = None /\ answer' = None
            /\ handled' = Command(Append(subBuf, SE))
        BY <2>1, <2>3, <3>2 DEF Typed
      <3>4. CommandsIntact' /\ handled' \in Seq(Bytes)
        <4>1. ~Contains(Tail(payload), IAC) => handled' = owed'
          BY <1>2, <2>3, <3>1, <3>3, CommandIs
        <4>2. handled' \in Seq(Bytes)
          <5> DEFINE d == SubSeq(Append(subBuf, SE), 1, Len(Append(subBuf, SE)) - 2)
          <5>1. d \in Seq(Bytes)
            BY <2>1, Kinds
          <5>2. handled' = d \/ (d # <<>> /\ handled' = Tail(d))
            BY <3>3 DEF Command
          <5> HIDE DEF d
          <5> QED BY <5>1, <5>2
        <4> QED BY <3>1, <4>1, <4>2 DEF CommandsIntact
      <3>5. Typed'
        <4>1. subBuf' \in Seq(Bytes) /\ Len(subBuf') <= SubMax
          BY <3>3, Empty
        <4> QED BY <3>3, <3>4, <4>1, ClientKeeps DEF Typed
      <3>6. Decoder'
        BY <3>3 DEF Decoder, Complete
      <3>7. InStep' /\ PendingFirst' /\ IacLast' /\ BufferFollows' /\ NothingInvented'
        BY <3>1, <3>3 DEF InStep, PendingFirst, IacLast, BufferFollows, NothingInvented
      <3> QED BY <3>4, <3>5, <3>6, <3>7, ClientKeeps
    <2>4. CASE ~(peer = "subiac" /\ b = SE)
      <3>1. SendsPayload(b) \/ SendsPayloadEnd(b)
        BY <2>2 DEF Sends, SendsText, SendsCommand, SendsOption
      <3>2. b # SE /\ peer' \in {"sub", "subiac"}
        BY <2>4, <3>1, Kinds DEF SendsPayload, SendsPayloadEnd, Reads
      <3>3. ~Complete(Append(subBuf, b))
        <4>1. /\ Append(subBuf, b) \in Seq(Bytes) /\ Len(Append(subBuf, b)) = Len(subBuf) + 1
              /\ Append(subBuf, b)[Len(subBuf) + 1] = b
          BY <2>1, Appended
        <4> HIDE DEF IInv, SubByte
        <4> QED BY <3>2, <4>1, CompleteIs
      <3> QED BY <1>2, <3>2, <3>3, SubByteGoesOn
    <2> QED BY <2>3, <2>4
  <1> QED BY <1>1, <1>2

\* A data byte of the client.
LEMMA PlainByteKeeps ==
    ASSUME IInv, NEW b \in Bytes, Sends(b), PlainByte(b), taken' \in 0..NetBuf
    PROVE  IInv'
  <1> USE DEF IInv, PlainByte, Outcome
  <1>1. ~Stuck /\ peer = "text"
    BY StuckStays DEF InStep, Typed
  <1>2. /\ peer' = "text" /\ due' = <<b>> /\ owed' = None /\ payload' = payload
    BY <1>1 DEF Sends, SendsText, SendsCommand, SendsOption, SendsPayload, SendsPayloadEnd,
                Reads
  <1>3. /\ UNCHANGED ctx /\ got' = <<b>> /\ handled' = None /\ answer' = None
    BY DEF ctx
  <1>4. Filled(b) \in Seq(Bytes) /\ <<>> \in Seq(Bytes) /\ Append(since, b) \in Seq(Bytes)
    BY DEF Filled, Typed
  <1>5. chunk' \in Seq(Bytes) /\ since' \in Seq(Bytes)
    BY <1>4
  <1>6. Typed'
    BY <1>3, <1>5, ClientKeeps DEF Typed, None, ctx
  <1>7. Client' /\ Decoder'
    BY <1>3, ClientKeeps DEF Decoder, ctx
  <1>8. InStep' /\ PendingFirst' /\ IacLast' /\ BufferFollows'
    BY <1>1, <1>2, <1>3 DEF InStep, PendingFirst, IacLast, BufferFollows, ctx
  <1>9. NothingInvented' /\ CommandsIntact'
    BY <1>2, <1>3 DEF NothingInvented, CommandsIntact
  <1> QED BY <1>6, <1>7, <1>8, <1>9

---------------------------------------------------------------------------
(* The ends of reads, the other direction, and the next client.            *)

\* Steps of the server that touch neither the context nor the client.
LEMMA ServerKeeps ==
    ASSUME IInv, EndOfRead \/ \E read \in UartReads : Flush(read)
    PROVE  IInv'
  <1>1. /\ UNCHANGED <<ctx, peer, payload>>
        /\ got' = None /\ handled' = None /\ answer' = None /\ due' = None /\ owed' = None
        /\ \/ taken' = 0 /\ chunk' = <<>> /\ since' = <<>>
           \/ UNCHANGED <<taken, chunk, since>>
    BY DEF EndOfRead, Flush, Outcome
  <1>2. Typed'
    <2>1. taken' \in 0..NetBuf
      BY <1>1, Sizes DEF IInv, Typed
    <2> QED BY <1>1, <2>1, Empty DEF IInv, Typed, ctx, None
  <1>3. Client' /\ Decoder'
    BY <1>1 DEF IInv, Client, Decoder, ctx
  <1>4. InStep' /\ PendingFirst' /\ IacLast' /\ BufferFollows'
    BY <1>1 DEF IInv, InStep, PendingFirst, IacLast, BufferFollows, Collected, Stuck, ctx
  <1>5. NothingInvented' /\ CommandsIntact'
    BY <1>1 DEF NothingInvented, CommandsIntact
  <1> QED BY <1>2, <1>3, <1>4, <1>5 DEF IInv

\* Each step keeps the invariant.
LEMMA NextKeeps == IInv /\ [Next]_vars => IInv'
  <1> SUFFICES ASSUME IInv, [Next]_vars PROVE IInv'
    OBVIOUS
  <1>1. ASSUME NEW b \in Bytes, Byte(b) PROVE IInv'
    <2>1. taken' \in 0..NetBuf
      BY <1>1, Sizes DEF IInv, Typed, Byte
    <2> QED BY <1>1, <2>1, EscapeKeeps, AfterIacKeeps, OptionKeeps, SubByteKeeps,
               PlainByteKeeps DEF Byte
  <1>2. CASE NewSession
    <2>1. (awaiting' \in BOOLEAN) /\ (inSub' \in BOOLEAN)
      BY <1>2 DEF NewSession
    <2>2. NewSession => (/\ ~awaiting /\ pending = 0 /\ ~inSub /\ subBuf = <<>>
                         /\ taken = 0 /\ chunk = <<>> /\ since = <<>>
                         /\ got = None /\ handled = None /\ answer = None
                         /\ peer = "text" /\ payload = <<>> /\ due = None /\ owed = None)'
      BY DEF NewSession, Outcome
    <2>3. (/\ ~awaiting /\ pending = 0 /\ ~inSub /\ subBuf = <<>>
           /\ taken = 0 /\ chunk = <<>> /\ since = <<>>
           /\ got = None /\ handled = None /\ answer = None
           /\ peer = "text" /\ payload = <<>> /\ due = None /\ owed = None
           /\ awaiting \in BOOLEAN /\ inSub \in BOOLEAN)' => IInv'
      BY EmptyInv, PTL
    <2> QED BY <1>2, <2>1, <2>2, <2>3
  <1>3. CASE UNCHANGED vars
    BY <1>3 DEF vars, ctx, ghost, IInv, Typed, Client, Decoder, InStep, PendingFirst,
                IacLast, BufferFollows, Collected, Stuck, NothingInvented, CommandsIntact
  <1> QED BY <1>1, <1>2, <1>3, ServerKeeps DEF Next

\* It holds in every state.
LEMMA Inductive == Spec => []IInv
  <1>1. Init => IInv
    BY InitInv
  <1> QED BY <1>1, NextKeeps, PTL DEF Spec

---------------------------------------------------------------------------
(* The chunk.                                                              *)

\* The decoding of a byte writes what was decoded before it.
LEMMA ByteWrites ==
    ASSUME IInv, since = chunk, NEW b \in Bytes, Byte(b)
    PROVE  since' = chunk' /\ WritesWhatItDecodes'
  <1> DEFINE n == Len(chunk)
  <1>1. chunk \in Seq(Bytes) /\ n \in Nat /\ n <= ChunkSize /\ ChunkSize \in Nat \ {0}
    BY Sizes, Lengths DEF IInv, Typed, Byte, Overrun
  <1> HIDE DEF n
  <1>2. ASSUME wrote' = NoWrite PROVE WritesWhatItDecodes'
    BY <1>1, <1>2 DEF WritesWhatItDecodes, NoWrite, IsPrefix
  <1>3. CASE Option(b) \/ SubByte(b) \/ Escape(b)
    BY <1>2, <1>3 DEF Option, SubByte, Escape
  <1>4. CASE AfterIac(b)
    BY <1>2, <1>4 DEF AfterIac
  <1>5. CASE PlainByte(b)
    <2>1. /\ Append(chunk, b) \in Seq(Bytes) /\ Len(Append(chunk, b)) = n + 1
          /\ SubSeq(Append(chunk, b), 1, n) = chunk
          /\ SubSeq(chunk, 1, n) = chunk
      BY <1>1, Appended, Lengths DEF n
    <2>2. CASE n = ChunkSize
      <3>1. /\ chunk' = <<>> /\ since' = <<>>
            /\ wrote' = Written(chunk, Append(chunk, b))
        BY <1>5, <2>2 DEF PlainByte, Filled, n
      <3> QED BY <1>1, <2>1, <2>2, <3>1 DEF WritesWhatItDecodes, Written, IsPrefix, n
    <2>3. CASE n < ChunkSize /\ n + 1 = ChunkSize
      <3>1. /\ chunk' = <<>> /\ since' = <<>>
            /\ wrote' = Written(Append(chunk, b), Append(chunk, b))
        BY <1>5, <2>1, <2>3 DEF PlainByte, Filled, n
      <3> QED BY <1>1, <2>1, <3>1 DEF WritesWhatItDecodes, Written, IsPrefix
    <2>4. CASE n < ChunkSize /\ n + 1 # ChunkSize
      <3>1. chunk' = Append(chunk, b) /\ since' = Append(chunk, b) /\ wrote' = NoWrite
        BY <1>5, <2>1, <2>4 DEF PlainByte, Filled, n
      <3> QED BY <1>2, <3>1
    <2> QED BY <1>1, <2>2, <2>3, <2>4
  <1> QED BY <1>3, <1>4, <1>5 DEF Byte

\* So does each step.
LEMMA NextWrites ==
    ASSUME IInv, since = chunk, WritesWhatItDecodes, [Next]_vars
    PROVE  since' = chunk' /\ WritesWhatItDecodes'
  <1>1. CASE EndOfRead
    <2>1. chunk' = <<>> /\ since' = <<>> /\ wrote' = Written(chunk, chunk)
      BY <1>1 DEF EndOfRead
    <2>2. Len(chunk) \in Nat /\ chunk \in Seq(Bytes)
      BY Lengths DEF IInv, Typed
    <2> QED BY <2>1, <2>2, Sizes DEF WritesWhatItDecodes, Written, IsPrefix
  <1>2. CASE NewSession \/ \E read \in UartReads : Flush(read)
    <2>1. wrote' = NoWrite /\ since' = chunk'
      BY <1>2 DEF NewSession, Flush
    <2> QED BY <2>1, Empty, Sizes DEF WritesWhatItDecodes, NoWrite, IsPrefix
  <1>3. CASE UNCHANGED vars
    BY <1>3 DEF vars, ctx, WritesWhatItDecodes
  <1> QED BY <1>1, <1>2, <1>3, ByteWrites DEF Next

\* A decoded byte is counted, and overruns a chunk that was full already.
LEMMA ByteCounts ==
    ASSUME IInv, Counted, NEW b \in Bytes, Byte(b)
    PROVE  Counted'
  <1> DEFINE n == Len(chunk)
  <1>1. /\ chunk \in Seq(Bytes) /\ n \in Nat /\ n <= ChunkSize
        /\ taken \in Nat /\ taken < NetBuf /\ taken' = taken + 1
        /\ awaiting \in BOOLEAN
    BY Sizes, Lengths DEF IInv, Typed, Overrun, Byte
  <1>2. ChunkSize \in Nat /\ ChunkSize > 1
    BY Sizes
  <1>3. /\ (n = 0 <=> chunk = <<>>)
        /\ chunk # <<>> => /\ n <= taken
                           /\ awaiting \/ n = ChunkSize  => n + 1 <= taken
                           /\ awaiting /\ n = ChunkSize => n + 2 <= taken
    BY <1>1, Lengths DEF Counted
  <1> HIDE DEF n
  <1> USE DEF Counted, OverrunNeedsLongRead, Overrun
  <1>4. CASE Option(b) \/ SubByte(b)
    <2>1. UNCHANGED <<awaiting, chunk>>
      BY <1>4 DEF Option, SubByte
    <2> QED BY <1>1, <1>2, <1>3, <2>1 DEF n
  <1>5. CASE Escape(b)
    <2>1. UNCHANGED chunk /\ awaiting' = TRUE /\ awaiting = FALSE
      BY <1>1, <1>5 DEF Escape
    <2> QED BY <1>1, <1>2, <1>3, <2>1 DEF n
  <1>6. CASE AfterIac(b) /\ b # IAC
    <2>1. chunk' = chunk \o <<>> /\ awaiting /\ awaiting' \in BOOLEAN
      BY <1>6 DEF AfterIac, None
    <2>2. chunk' = chunk
      BY <1>1, <2>1
    <2> QED BY <1>1, <1>2, <1>3, <2>1, <2>2 DEF n
  <1>7. CASE AfterIac(b) /\ b = IAC
    <2>1. chunk' = chunk \o <<IAC>> /\ awaiting /\ ~awaiting'
      BY <1>7, Kinds DEF AfterIac, None
    <2>2. Len(chunk') = n + 1 /\ chunk' # <<>>
      BY <1>1, <2>1, Kinds DEF n
    <2>3. CASE n = ChunkSize
      <3>1. n + 2 <= taken
        BY <1>1, <1>2, <1>3, <2>1, <2>3
      <3> QED BY <1>1, <1>2, <2>1, <2>2, <2>3, <3>1
    <2>4. CASE n < ChunkSize
      <3>1. n + 1 <= taken + 1 /\ (n + 1 = ChunkSize => n + 2 <= taken + 1)
        BY <1>1, <1>2, <1>3, <2>1, <2>4
      <3> QED BY <1>1, <1>2, <2>1, <2>2, <2>4, <3>1
    <2> QED BY <1>1, <1>2, <2>3, <2>4
  <1>8. CASE PlainByte(b)
    <2>1. ~awaiting /\ awaiting' = awaiting
      BY <1>8 DEF PlainByte
    <2>2. Len(Append(chunk, b)) = n + 1
      BY <1>1 DEF n
    <2>3. CASE n = ChunkSize \/ n + 1 = ChunkSize
      <3>1. chunk' = <<>>
        BY <1>1, <1>2, <1>8, <2>2, <2>3 DEF PlainByte, Filled, n
      <3> QED BY <1>2, <3>1, Empty
    <2>4. CASE n < ChunkSize /\ n + 1 # ChunkSize
      <3>1. chunk' = Append(chunk, b)
        BY <1>1, <1>8, <2>2, <2>4 DEF PlainByte, Filled, n
      <3>2. Len(chunk') = n + 1 /\ ~awaiting'
        BY <2>1, <2>2, <3>1
      <3>3. n + 1 <= ChunkSize
        BY <1>1, <1>2, <2>4
      <3>4. n + 1 <= taken'
        BY <1>1, <1>3
      <3>5. ~Overrun'
        BY <1>1, <1>2, <3>2, <3>3 DEF Overrun
      <3> QED BY <1>1, <2>4, <3>2, <3>3, <3>4, <3>5
    <2> QED BY <1>1, <1>2, <2>3, <2>4
  <1> QED BY <1>4, <1>5, <1>6, <1>7, <1>8 DEF Byte

\* So is every step.
LEMMA NextCounts ==
    ASSUME IInv, Counted, [Next]_vars
    PROVE  Counted'
  <1>1. CASE EndOfRead \/ NewSession
    <2>1. chunk' = <<>>
      BY <1>1 DEF EndOfRead, NewSession
    <2> QED BY <2>1, Empty, Sizes DEF Counted, OverrunNeedsLongRead, Overrun
  <1>2. CASE (\E read \in UartReads : Flush(read)) \/ UNCHANGED vars
    BY <1>2 DEF Flush, vars, ctx, Counted, OverrunNeedsLongRead, Overrun
  <1> QED BY <1>1, <1>2, ByteCounts DEF Next

---------------------------------------------------------------------------
(* The theorems.                                                           *)

\* Every variable keeps its type and subopt_buf is not overrun
\* (process_network_data_telnet).
THEOREM TypeCorrect == Spec => []TypeOK
  <1>1. IInv => TypeOK
    BY DEF IInv, Typed, TypeOK
  <1> QED BY <1>1, Inductive, PTL

\* serial_chunk is overrun only in a read more than two bytes longer than it
\* (process_network_data_telnet), so that shorter reads are safe.
THEOREM OverrunIsLate == Spec => []OverrunNeedsLongRead
  <1>1. Init => Counted
    BY InitInv
  <1>2. IInv /\ Counted /\ [Next]_vars => Counted'
    BY NextCounts
  <1>3. Counted => OverrunNeedsLongRead
    BY DEF Counted
  <1> QED BY <1>1, <1>2, <1>3, Inductive, PTL DEF Spec

\* The decoder expects the rest of a command or of a sub-negotiation exactly
\* when the client is inside one, wherever reads cut the stream, unless a
\* sub-negotiation overran subopt_buf (process_network_data_telnet).
THEOREM KeepsStep == Spec => []InStep
  <1>1. IInv => InStep
    BY DEF IInv
  <1> QED BY <1>1, Inductive, PTL

\* Nothing but the client's data is decoded as data, although the option of a
\* verb is looked for twice (process_network_data_telnet).
THEOREM OnlyData == Spec => []NothingInvented
  <1>1. IInv => NothingInvented
    BY DEF IInv
  <1> QED BY <1>1, Inductive, PTL

\* A command without IAC in it reaches handle_rfc2217_command as it was sent,
\* with or without the octet of its option in front.
THEOREM CommandsArrive == Spec => []CommandsIntact
  <1>1. IInv => CommandsIntact
    BY DEF IInv
  <1> QED BY <1>1, Inductive, PTL

\* For buffers of every size, until the chunk is overrun, what is written to the
\* UART is what was decoded, in order and complete but for the
\* byte behind an escaped IAC that fills the chunk (process_network_data_telnet).
THEOREM WritesDecoded == Spec => []WritesWhatItDecodes
  <1>1. Init => since = chunk /\ WritesWhatItDecodes
    BY Empty, Sizes DEF Init, NoWrite, WritesWhatItDecodes, IsPrefix
  <1>2. IInv /\ since = chunk /\ WritesWhatItDecodes /\ [Next]_vars
          => (since = chunk)' /\ WritesWhatItDecodes'
    BY NextWrites
  <1> QED BY <1>1, <1>2, Inductive, PTL DEF Spec

---------------------------------------------------------------------------
(* The wire.                                                               *)

\* Induction over the bytes of a read is by the least counterexample.
LEMMA LeastOf ==
    ASSUME NEW T \in SUBSET Nat, T # {}
    PROVE  \E x \in T : \A y \in T : x <= y
<1>1. PICK x \in T : \A y \in T : <<y, x>> \notin OpToRel(<, Nat)
  <2>1. IsWellFoundedOn(OpToRel(<, Nat), Nat)
    BY NatLessThanWellFounded
  <2> QED
    BY <2>1, WFMin
<1>2. ASSUME NEW y \in T
      PROVE  x <= y
  <2>1. <<y, x>> \in Nat \X Nat /\ <<y, x>>[1] = y /\ <<y, x>>[2] = x
    OBVIOUS
  <2>2. ~(y < x)
    BY <1>1, <2>1, Zenon DEF OpToRel
  <2> QED
    BY <2>2
<1> QED
  BY <1>2

\* The greatest element of a set of indices, which a fold takes first.
LEMMA MaxIs ==
    ASSUME NEW n \in Nat, NEW s \in SUBSET (1..n), s # {}
    PROVE  Max(s) \in s /\ \A y \in s : Max(s) >= y
<1> DEFINE Above == {m \in 1..n : \A y \in s : m >= y}
<1>1. Above \in SUBSET Nat /\ n \in Above
  <2>1. \A y \in s : y \in 1..n /\ n >= y
    OBVIOUS
  <2>2. PICK y \in s : TRUE
    OBVIOUS
  <2>3. n \in 1..n
    BY <2>1, <2>2
  <2> QED
    BY <2>1, <2>3
<1>2. PICK m \in Above : \A y \in Above : m <= y
  <2>1. Above # {}
    BY <1>1
  <2> HIDE DEF Above
  <2> QED
    BY <1>1, <2>1, LeastOf
<1>3. m \in s
  <2>1. SUFFICES ASSUME m \notin s PROVE FALSE
    OBVIOUS
  <2>2. PICK y \in s : TRUE
    OBVIOUS
  <2>3. m - 1 \in Above
    BY <2>1, <2>2
  <2> QED
    BY <1>2, <2>3
<1>4. \E x \in s : \A y \in s : x >= y
  BY <1>3
<1> QED
  BY <1>4, Zenon DEF Max

\* In front of its last byte a read is the read that is one byte shorter.
LEMMA MaxOfRange ==
    ASSUME NEW k \in Nat, NEW s \in SUBSET (1..k), k \in s
    PROVE  Max(s) = k
<1>1. Max(s) \in s /\ Max(s) >= k
  <2>1. s # {}
    OBVIOUS
  <2> QED
    BY <2>1, MaxIs
<1>2. Max(s) \in 1..k
  BY <1>1
<1> QED
  BY <1>1, <1>2

---------------------------------------------------------------------------
\* g folds Put over the sets of the first k bytes of a read.
FoldsPut(g, read, k) ==
    g = [s \in SUBSET (1..k) |->
           IF s = {} THEN <<>> ELSE LET x == Max(s) IN Put(g[s \ {x}], read[x])]

\* One byte more: it is put last.
LEMMA FoldExtends ==
    ASSUME NEW read, NEW k \in Nat \ {0}, NEW g, FoldsPut(g, read, k - 1)
    PROVE  \E h : FoldsPut(h, read, k)
<1> DEFINE h == [s \in SUBSET (1..k) |->
                   IF k \in s THEN Put(g[s \ {k}], read[k]) ELSE g[s]]
<1>1. ASSUME NEW s \in SUBSET (1..k)
      PROVE  h[s] = IF s = {} THEN <<>>
                    ELSE LET x == Max(s) IN Put(h[s \ {x}], read[x])
  <2>1. CASE k \in s
    <3>1. Max(s) = k
      BY <2>1, MaxOfRange
    <3>2. s \ {k} \in SUBSET (1..k) /\ k \notin s \ {k} /\ s # {}
      BY <2>1
    <3>3. h[s \ {k}] = g[s \ {k}]
      BY <3>2
    <3>4. h[s] = Put(g[s \ {k}], read[k])
      BY <2>1
    <3> QED
      BY <3>1, <3>2, <3>3, <3>4
  <2>2. CASE k \notin s
    <3>1. s \in SUBSET (1..(k - 1))
      BY <2>2
    <3>2. h[s] = g[s]
      BY <2>2
    <3>3. g[s] = IF s = {} THEN <<>>
                 ELSE LET x == Max(s) IN Put(g[s \ {x}], read[x])
      BY <3>1, Zenon DEF FoldsPut
    <3>4. ASSUME s # {}
          PROVE  h[s \ {Max(s)}] = g[s \ {Max(s)}]
      BY <2>2
    <3> QED
      BY <3>2, <3>3, <3>4
  <2> QED
    BY <2>1, <2>2
<1>2. h = [s \in SUBSET (1..k) |-> h[s]]
  BY Zenon
<1>3. FoldsPut(h, read, k)
  BY <1>1, <1>2 DEF FoldsPut
<1> QED
  BY <1>3

\* The recursion of FoldLeft defines a function for every length.
LEMMA FoldExists ==
    ASSUME NEW read, NEW n \in Nat
    PROVE  \E g : FoldsPut(g, read, n)
<1> DEFINE Missing == {k \in Nat : ~\E g : FoldsPut(g, read, k)}
<1>1. SUFFICES ASSUME Missing # {} PROVE FALSE
  OBVIOUS
<1>2. PICK k \in Missing : \A y \in Missing : k <= y
  BY <1>1, LeastOf
<1>3. k # 0
  <2>1. FoldsPut([s \in SUBSET (1..0) |-> <<>>], read, 0)
    BY DEF FoldsPut
  <2> QED
    BY <2>1
<1>4. k - 1 \in Nat /\ k - 1 \notin Missing
  BY <1>2, <1>3
<1>5. PICK g : FoldsPut(g, read, k - 1)
  BY <1>4
<1> QED
  BY <1>3, <1>5, FoldExtends

\* What Flush puts on the wire: Put, byte after byte.
LEMMA FlushFolds ==
    ASSUME NEW n \in Nat, NEW read, DOMAIN read = 1..n
    PROVE  \E g : /\ FoldLeft(Put, <<>>, read) = g[1..n]
                  /\ g[1..0] = <<>>
                  /\ \A k \in 1..n : g[1..k] = Put(g[1..(k - 1)], read[k])
<1>1. \E h : FoldsPut(h, read, n)
  BY FoldExists
<1>2. PICK g : FoldsPut(g, read, n) /\ FoldLeft(Put, <<>>, read) = g[DOMAIN read]
  BY <1>1, Zenon DEF FoldLeft, MapThenFoldSet, FoldsPut
<1>3. \A s \in SUBSET (1..n) :
        g[s] = IF s = {} THEN <<>> ELSE LET x == Max(s) IN Put(g[s \ {x}], read[x])
  BY <1>2, Zenon DEF FoldsPut
<1>4. g[1..0] = <<>>
  BY <1>3
<1>5. ASSUME NEW k \in 1..n
      PROVE  g[1..k] = Put(g[1..(k - 1)], read[k])
  <2>1. 1..k \in SUBSET (1..n) /\ k \in 1..k /\ 1..k # {}
    <3>1. k \in Nat /\ 1 <= k /\ k <= n
      OBVIOUS
    <3>2. k \in 1..k
      BY <3>1
    <3>3. \A i \in 1..k : i \in 1..n
      BY <3>1
    <3> QED
      BY <3>2, <3>3
  <2>2. Max(1..k) = k
    BY <2>1, MaxOfRange
  <2>3. (1..k) \ {k} = 1..(k - 1)
    OBVIOUS
  <2> QED
    BY <1>3, <2>1, <2>2, <2>3
<1> QED
  BY <1>2, <1>4, <1>5

---------------------------------------------------------------------------
\* A byte as it goes to the client.
Doubled(b) == IF b = IAC THEN <<IAC, IAC>> ELSE <<b>>

\* g joins the first k pieces.
Joins(g, seqs, k) ==
    g = [i \in 1..k |-> IF i = 1 THEN seqs[i] ELSE g[i - 1] \o seqs[i]]

\* One piece more.
LEMMA JoinExtends ==
    ASSUME NEW seqs, NEW k \in Nat \ {0}, NEW g, Joins(g, seqs, k - 1)
    PROVE  \E h : Joins(h, seqs, k)
<1> DEFINE last == IF k = 1 THEN seqs[k] ELSE g[k - 1] \o seqs[k]
           h == [i \in 1..k |-> IF i = k THEN last ELSE g[i]]
<1>1. ASSUME NEW i \in 1..k
      PROVE  h[i] = IF i = 1 THEN seqs[i] ELSE h[i - 1] \o seqs[i]
  <2>1. CASE i = k
    <3>1. i # 1 => h[i - 1] = g[i - 1]
      BY <2>1
    <3> QED
      BY <2>1, <3>1
  <2>2. CASE i # k
    <3>1. i \in 1..(k - 1)
      BY <2>2
    <3>2. h[i] = g[i] /\ (i # 1 => h[i - 1] = g[i - 1])
      BY <2>2
    <3>3. g[i] = IF i = 1 THEN seqs[i] ELSE g[i - 1] \o seqs[i]
      BY <3>1, Zenon DEF Joins
    <3> QED
      BY <3>2, <3>3
  <2> QED
    BY <2>1, <2>2
<1>2. h = [i \in 1..k |-> h[i]]
  BY Zenon
<1> HIDE DEF h
<1>3. Joins(h, seqs, k)
  BY <1>1, <1>2 DEF Joins
<1> QED
  BY <1>3

\* The recursion of FlattenSeq defines a function for every length.
LEMMA JoinExists ==
    ASSUME NEW seqs, NEW n \in Nat
    PROVE  \E g : Joins(g, seqs, n)
<1> DEFINE Missing == {k \in Nat : ~\E g : Joins(g, seqs, k)}
<1>1. SUFFICES ASSUME Missing # {} PROVE FALSE
  OBVIOUS
<1>2. PICK k \in Missing : \A y \in Missing : k <= y
  BY <1>1, LeastOf
<1>3. k # 0
  <2>1. Joins([i \in 1..0 |-> <<>>], seqs, 0)
    BY DEF Joins
  <2> QED
    BY <2>1
<1>4. k - 1 \in Nat /\ k - 1 \notin Missing
  BY <1>2, <1>3
<1>5. PICK g : Joins(g, seqs, k - 1)
  BY <1>4
<1> QED
  BY <1>3, <1>5, JoinExtends

\* What the client should get of a read, byte after byte.
LEMMA EscapedJoins ==
    ASSUME NEW read, NEW n \in Nat, n # 0, DOMAIN read = 1..n
    PROVE  \E g : /\ Escaped(read) = g[n]
                  /\ g[1] = Doubled(read[1])
                  /\ \A k \in 2..n : g[k] = g[k - 1] \o Doubled(read[k])
<1> DEFINE seqs == [i \in DOMAIN read |-> Doubled(read[i])]
<1>1. Len(seqs) = n
  OBVIOUS
<1>2. Escaped(read) = FlattenSeq(seqs)
  BY Zenon DEF Escaped, Doubled
<1> HIDE DEF seqs
<1>3. \E h : Joins(h, seqs, Len(seqs))
  BY <1>1, JoinExists
<1>4. PICK g : Joins(g, seqs, Len(seqs)) /\ FlattenSeq(seqs) = g[Len(seqs)]
  <2>1. Len(seqs) # 0
    BY <1>1
  <2> QED
    BY <1>3, <2>1, Zenon DEF FlattenSeq, Joins
<1>5. \A i \in 1..n : g[i] = IF i = 1 THEN seqs[i] ELSE g[i - 1] \o seqs[i]
  BY <1>1, <1>4, Zenon DEF Joins
<1>6. \A i \in 1..n : seqs[i] = Doubled(read[i])
  BY DEF seqs
<1>7. g[1] = Doubled(read[1])
  BY <1>5, <1>6
<1>8. ASSUME NEW k \in 2..n
      PROVE  g[k] = g[k - 1] \o Doubled(read[k])
  <2>1. k \in 1..n /\ k # 1
    OBVIOUS
  <2> QED
    BY <1>5, <1>6, <2>1
<1> QED
  BY <1>1, <1>2, <1>4, <1>7, <1>8

---------------------------------------------------------------------------
\* The wire holds what came so far, doubled, as far as there was room.
Carries(wire, all) ==
    /\ Len(wire) < NetBuf
    /\ IsPrefix(wire, all)
    /\ Len(wire) < NetBuf - 1 => wire = all

Data == Plain \cup {IAC}

\* A prefix, element by element.
LEMMA PrefixOf ==
    ASSUME NEW w \in Seq(Data), NEW e \in Seq(Data)
    PROVE  IsPrefix(w, e) <=>
             Len(w) <= Len(e) /\ \A i \in 1..Len(w) : w[i] = e[i]
  BY DEF IsPrefix

\* Every sequence is a prefix of itself.
LEMMA PrefixSelf ==
    ASSUME NEW w \in Seq(Data)
    PROVE  IsPrefix(w, w)
  BY DEF IsPrefix

\* Sequences are equal when their elements are.
LEMMA SeqEqual ==
    ASSUME NEW u \in Seq(Data), NEW v \in Seq(Data), Len(u) = Len(v),
           \A i \in 1..Len(u) : u[i] = v[i]
    PROVE  u = v
  OBVIOUS

\* One turn of the loop of flush_serial_to_net, with net_buf full, with room for
\* a single byte, and with room for two.
LEMMA PutCarries ==
    ASSUME NEW w \in Seq(Data), NEW e \in Seq(Data), NEW b \in Data,
           Carries(w, e)
    PROVE  /\ Put(w, b) \in Seq(Data) /\ e \o Doubled(b) \in Seq(Data)
           /\ Carries(Put(w, b), e \o Doubled(b))
<1> DEFINE d == Doubled(b)
<1>1. d \in Seq(Data) /\ Len(d) \in {1, 2} /\ d[1] = b
      /\ (Len(d) = 2 <=> b = IAC) /\ (Len(d) = 2 => d[2] = b)
  <2>1. CASE b = IAC
    <3>1. d = <<b, b>>
      BY <2>1 DEF Doubled
    <3> QED
      BY <2>1, <3>1
  <2>2. CASE b # IAC
    <3>1. d = <<b>>
      BY <2>2 DEF Doubled
    <3> QED
      BY <2>2, <3>1
  <2> QED
    BY <2>1, <2>2
<1>2. NetBuf \in Nat \ {0}
  BY TelnetAssumption
<1> HIDE DEF d
<1>3. e \o d \in Seq(Data) /\ Len(e \o d) = Len(e) + Len(d)
      /\ (\A i \in 1..Len(e) : (e \o d)[i] = e[i])
  BY <1>1
<1>4. CASE Len(w) >= NetBuf - 1
  <2>1. Put(w, b) = w
    BY <1>4 DEF Put
  <2>2. Len(w) <= Len(e) /\ \A i \in 1..Len(w) : w[i] = e[i]
    BY PrefixOf DEF Carries
  <2>3. Len(w) <= Len(e \o d) /\ \A i \in 1..Len(w) : w[i] = (e \o d)[i]
    BY <2>2, <1>3, <1>1
  <2>4. IsPrefix(w, e \o d)
    BY <2>3, <1>3, PrefixOf
  <2>5. ~(Len(w) < NetBuf - 1)
    BY <1>4, <1>2
  <2> QED
    BY <2>1, <2>4, <2>5, <1>3 DEF Carries, d
<1>5. CASE Len(w) < NetBuf - 1
  <2>1. w = e
    BY <1>5 DEF Carries
  <2>2. CASE Len(w) = NetBuf - 2 \/ b # IAC
    <3>1. Put(w, b) = Append(w, b)
      BY <1>5, <1>2, <2>2 DEF Put
    <3>2. Len(Append(w, b)) = Len(w) + 1 /\ Append(w, b) \in Seq(Data)
      OBVIOUS
    <3>3. \A i \in 1..Len(Append(w, b)) : Append(w, b)[i] = (e \o d)[i]
      BY <2>1, <1>1
    <3>4. IsPrefix(Append(w, b), e \o d)
      <4>1. Len(Append(w, b)) <= Len(e \o d)
        BY <3>2, <1>3, <1>1, <2>1
      <4> DEFINE u == Append(w, b)
                 v == e \o d
      <4>2. /\ u \in Seq(Data) /\ v \in Seq(Data)
            /\ Len(u) <= Len(v) /\ \A i \in 1..Len(u) : u[i] = v[i]
        BY <3>2, <3>3, <4>1, <1>3
      <4> HIDE DEF u, v
      <4>3. IsPrefix(u, v)
        BY <4>2, PrefixOf
      <4> QED
        BY <4>3 DEF u, v
    <3>5. Len(Append(w, b)) < NetBuf
      BY <3>2, <1>5, <1>2
    <3>6. ASSUME Len(Append(w, b)) < NetBuf - 1
          PROVE  Append(w, b) = e \o d
      <4>1. b # IAC
        BY <3>6, <3>2, <2>2, <1>2
      <4>2. Len(Append(w, b)) = Len(e \o d)
        BY <4>1, <1>1, <1>3, <2>1, <3>2
      <4> DEFINE u == Append(w, b)
                 v == e \o d
      <4>3. /\ u \in Seq(Data) /\ v \in Seq(Data)
            /\ Len(u) = Len(v) /\ \A i \in 1..Len(u) : u[i] = v[i]
        BY <3>2, <3>3, <4>2, <1>3
      <4> HIDE DEF u, v
      <4>4. u = v
        BY <4>3, SeqEqual
      <4> QED
        BY <4>4 DEF u, v
    <3> QED
      BY <3>1, <3>2, <3>4, <3>5, <3>6, <1>3 DEF Carries, d
  <2>3. CASE Len(w) # NetBuf - 2 /\ b = IAC
    <3>1. Put(w, b) = w \o <<b, b>>
      BY <1>5, <1>2, <2>3 DEF Put
    <3>2. d = <<b, b>>
      BY <2>3 DEF Doubled, d
    <3>3. Len(e \o d) = Len(w) + 2
      BY <2>1, <3>2, <1>3
    <3>4. IsPrefix(e \o d, e \o d)
      BY <1>3, PrefixSelf
    <3> QED
      BY <3>1, <3>2, <3>3, <3>4, <2>1, <2>3, <1>3, <1>5, <1>2 DEF Carries, d
  <2> QED
    BY <2>2, <2>3
<1> QED
  BY <1>4, <1>5, <1>2

\* Of every read the wire carries what fits.
LEMMA FlushCarries ==
    ASSUME NEW read \in UartReads
    PROVE  Carries(FoldLeft(Put, <<>>, read), Escaped(read))
<1>1. PICK n \in Nat \ {0} : read \in [1..n -> Data]
  BY TelnetAssumption DEF UartReads, Data
<1>2. DOMAIN read = 1..n /\ \A i \in 1..n : read[i] \in Data
  BY <1>1
<1>3. PICK w : /\ FoldLeft(Put, <<>>, read) = w[1..n]
               /\ w[1..0] = <<>>
               /\ \A k \in 1..n : w[1..k] = Put(w[1..(k - 1)], read[k])
  BY <1>2, FlushFolds
<1>4. PICK e : /\ Escaped(read) = e[n]
               /\ e[1] = Doubled(read[1])
               /\ \A k \in 2..n : e[k] = e[k - 1] \o Doubled(read[k])
  <2>1. n \in Nat /\ n # 0 /\ DOMAIN read = 1..n
    BY <1>2

  <2> QED
    BY <2>1, EscapedJoins, Zenon
<1> DEFINE Good(k) == /\ w[1..k] \in Seq(Data) /\ e[k] \in Seq(Data)
                      /\ Carries(w[1..k], e[k])
           Bad == {k \in Nat : k \in 1..n /\ ~Good(k)}
<1>5. Good(1)
  <2>1. <<>> \in Seq(Data) /\ Carries(<<>>, <<>>)
    <3>1. <<>> \in Seq(Data) /\ Len(<<>>) = 0
      OBVIOUS
    <3>2. IsPrefix(<<>>, <<>>)
      BY <3>1, PrefixSelf, Zenon
    <3> QED
      BY <3>1, <3>2, TelnetAssumption DEF Carries
  <2>2. read[1] \in Data /\ 1 \in 1..n
    BY <1>2
  <2>3. w[1..1] = Put(w[1..(1 - 1)], read[1])
    BY <1>3, <2>2
  <2>4. w[1..(1 - 1)] = <<>>
    BY <1>3
  <2>5. e[1] = <<>> \o Doubled(read[1])
    BY <1>4, <2>2 DEF Doubled, Data
  <2> QED
    BY <2>1, <2>2, <2>3, <2>4, <2>5, PutCarries
<1>6. ASSUME NEW k \in 2..n, Good(k - 1)
      PROVE  Good(k)
  <2>1. read[k] \in Data /\ k \in 1..n
    BY <1>2
  <2>2. w[1..k] = Put(w[1..(k - 1)], read[k])
    BY <1>3, <2>1
  <2>3. e[k] = e[k - 1] \o Doubled(read[k])
    BY <1>4
  <2> QED
    BY <1>6, <2>1, <2>2, <2>3, PutCarries
<1> HIDE DEF Good
<1>7. Bad = {}
  <2>1. SUFFICES ASSUME Bad # {} PROVE FALSE
    OBVIOUS
  <2>2. PICK k \in Bad : \A y \in Bad : k <= y
    BY <2>1, LeastOf
  <2>3. k # 1
    BY <1>5, <2>2
  <2>4. k \in 2..n /\ k - 1 \in 1..n /\ k - 1 \notin Bad
    BY <2>2, <2>3
  <2>5. Good(k - 1)
    BY <2>4
  <2> QED
    BY <1>6, <2>2, <2>4, <2>5
<1>8. Good(n)
  BY <1>7
<1> QED
  BY <1>3, <1>4, <1>8 DEF Good

\* Of what the UART received the client is sent a prefix with IAC doubled, which
\* is all of it unless net_buf_size - 1 bytes were sent, for every read and
\* every size of the buffers.
THEOREM WireCarries == Spec => []WireCarriesRead
<1>1. Carries(<<>>, Escaped(<<>>))
  <2>1. Escaped(<<>>) = <<>>
    BY DEF Escaped, FlattenSeq
  <2>2. IsPrefix(<<>>, <<>>)
    BY DEF IsPrefix
  <2> QED
    BY <2>1, <2>2, TelnetAssumption DEF Carries
<1>2. Init => WireCarriesRead
  BY <1>1 DEF Init, NoFrame, WireCarriesRead, Carries
<1>3. WireCarriesRead /\ [Next]_vars => WireCarriesRead'
  <2> SUFFICES ASSUME WireCarriesRead, [Next]_vars
               PROVE  WireCarriesRead'
    OBVIOUS
  <2>1. ASSUME frame' = NoFrame
        PROVE  WireCarriesRead'
    BY <2>1, <1>1 DEF NoFrame, WireCarriesRead, Carries
  <2>2. ASSUME NEW b \in Bytes, Byte(b)
        PROVE  WireCarriesRead'
    BY <2>1, <2>2 DEF Byte
  <2>3. CASE EndOfRead
    BY <2>1, <2>3 DEF EndOfRead
  <2>4. ASSUME NEW read \in UartReads, Flush(read)
        PROVE  WireCarriesRead'
    <3>1. Carries(FoldLeft(Put, <<>>, read), Escaped(read))
      BY FlushCarries
    <3>2. frame' = [read |-> read, wire |-> FoldLeft(Put, <<>>, read)]
      BY <2>4 DEF Flush
    <3>3. frame'.read = read /\ frame'.wire = FoldLeft(Put, <<>>, read)
      BY <3>2
    <3>4. Carries(frame'.wire, Escaped(frame'.read))
      BY <3>1, <3>3
    <3> QED
      BY <3>4, Zenon DEF WireCarriesRead, Carries
  <2>5. CASE NewSession
    BY <2>1, <2>5 DEF NewSession
  <2>6. CASE UNCHANGED vars
    BY <2>6 DEF vars, WireCarriesRead
  <2> QED
    BY <2>2, <2>3, <2>4, <2>5, <2>6 DEF Next
<1> QED
  BY <1>2, <1>3, PTL DEF Spec
===============================================================================
