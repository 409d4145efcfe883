------------------------------ MODULE StreamCodec ------------------------------
(* Completions answered to callers of the Messages protocol: the encoder that *)
(* turns the chunks of a streamed completion into Messages events              *)
(* (createAnthropicStreamCodec), the fold of such events into one message      *)
(* (collectAnthropicStream), the direct conversion of a whole completion, the  *)
(* repair of nested documents and the stream made from one                     *)
(* (anthropic-passthrough.mjs), and the way a message goes back to an upstream *)
(* as history (anthropicToOpenAI).                                             *)
(* A chunk is what it carries: reasoning, text, pieces of tool calls, a finish *)
(* reason.  A piece of text is the number of the chunk that brought it, so a   *)
(* text is a sequence of numbers; ids, names, usage and JSON are left out.     *)
EXTENDS Integers, Sequences, SequencesExt, SeqFolds

CONSTANTS
    Deltas,     \* the chunks an upstream may send
    MaxChunks,  \* bound of the exploration: chunks of a stream
    NoBlock     \* no block is open

BlockKinds == {"text", "thinking", "tool"}
Finishes == {"none", "stop", "length", "tool_calls", "content_filter", "odd"}

ASSUME CodecAssumption ==
    /\ Deltas \subseteq [reasoning : BOOLEAN, content : BOOLEAN, finish : Finishes,
                         calls : Seq([index : Nat, args : BOOLEAN, named : BOOLEAN])]
    /\ MaxChunks \in Nat
    /\ NoBlock \notin Nat /\ NoBlock \notin [index : Nat, kind : BlockKinds]

VARIABLES
    options,    \* strictCompletion and keepReasoning
    chunks,     \* the chunks with a choice that were pushed
    codec,      \* the state of the encoder
    phase       \* "streaming", "ended" or "failed"

codecVars == <<options, chunks, codec, phase>>

CallNumbers == UNION {{call.index : call \in ToSet(delta.calls)} : delta \in Deltas}

NewCodec ==
    [started |-> FALSE, next |-> 0, open |-> NoBlock, tools |-> [call \in CallNumbers |-> NoBlock],
     finish |-> "none", done |-> FALSE, semantic |-> FALSE, events |-> << >>]

CodecInit ==
    /\ options \in [strict : BOOLEAN, keep : BOOLEAN]
    /\ chunks = << >> /\ codec = NewCodec /\ phase = "streaming"

Event(type, index, kind, body) == [type |-> type, index |-> index, kind |-> kind, body |-> body]
Emit(c, event) == [c EXCEPT !.events = Append(@, event)]

Started(c) ==
    IF c.started THEN c ELSE [Emit(c, Event("message_start", 0, "message", << >>)) EXCEPT !.started = TRUE]

CloseOpen(c) ==
    IF c.open = NoBlock THEN c
    ELSE [Emit(c, Event("block_stop", c.open.index, c.open.kind, << >>)) EXCEPT !.open = NoBlock]

OpenBlock(c, kind) ==
    LET closed == CloseOpen(c)
    IN  [Emit(closed, Event("block_start", c.next, kind, << >>)) EXCEPT
            !.open = [index |-> c.next, kind |-> kind], !.next = @ + 1]

\* Slip: text goes into whatever block is open.
OpenTextAnywhere(c) == IF c.open # NoBlock THEN c ELSE OpenBlock(c, "text")

OpenText(c) == IF c.open # NoBlock /\ c.open.kind = "text" THEN c ELSE OpenBlock(c, "text")

\* Slip: every piece of a call opens a block of its own.
OpenToolAgain(c, call) ==
    [OpenBlock(c, "tool") EXCEPT !.tools[call] = c.next]

\* A call that comes back after another block keeps its number, although its block was stopped.
OpenTool(c, call) ==
    IF c.tools[call] # NoBlock THEN c ELSE [OpenBlock(c, "tool") EXCEPT !.tools[call] = c.next]

PushReasoning(c, n) ==
    IF ~options.keep THEN [c EXCEPT !.semantic = TRUE]
    ELSE LET opened == OpenBlock(c, "thinking")
         IN  CloseOpen([Emit(opened, Event("delta", c.next, "thinking", <<n>>)) EXCEPT !.semantic = TRUE])

PushText(c, n) ==
    LET opened == OpenText(c)
    IN  [Emit(opened, Event("delta", opened.open.index, "text", <<n>>)) EXCEPT !.semantic = TRUE]

\* A piece with neither arguments nor a name or an id opens its block and says nothing.
PushCall(c, call, n) ==
    LET tool == OpenTool(c, call.index)
        opened == IF call.named \/ call.args THEN [tool EXCEPT !.semantic = TRUE] ELSE tool
    IN  IF call.args THEN Emit(opened, Event("delta", opened.tools[call.index], "tool", <<n>>)) ELSE opened

Finished(c, finish) == IF finish = "none" THEN c ELSE [c EXCEPT !.finish = finish]

Encoded(c, chunk, n) ==
    LET start == Started(c)
        reason == IF chunk.reasoning THEN PushReasoning(start, n) ELSE start
        text == IF chunk.content THEN PushText(reason, n) ELSE reason
        pushed[k \in 0..Len(chunk.calls)] ==
            IF k = 0 THEN text ELSE PushCall(pushed[k - 1], chunk.calls[k], n)
    IN  Finished(pushed[Len(chunk.calls)], chunk.finish)

Room == phase = "streaming" /\ Len(chunks) < MaxChunks

\* A chunk with a choice; under strictCompletion an odd finish reason fails the stream.
Push == \E chunk \in Deltas :
    /\ Room
    /\ ~(options.strict /\ chunk.finish = "odd")
    /\ chunks' = Append(chunks, chunk)
    /\ codec' = Encoded(codec, chunk, Len(chunks) + 1)
    /\ UNCHANGED <<options, phase>>

\* A chunk without choices, usage for instance; the end marker.
PushBare == /\ Room /\ codec' = Started(codec) /\ UNCHANGED <<options, chunks, phase>>
PushDone == /\ phase = "streaming" /\ codec' = [codec EXCEPT !.done = TRUE] /\ UNCHANGED <<options, chunks, phase>>

\* Garbage (strict), an embedded error, an odd finish (strict), an end too early (strict).
Throw ==
    /\ phase = "streaming" /\ phase' = "failed"
    /\ UNCHANGED <<options, chunks, codec>>

StopReason(finish) ==
    IF finish = "length" THEN "max_tokens" ELSE IF finish = "tool_calls" THEN "tool_use" ELSE "end_turn"

Complete == codec.finish # "none" \/ codec.done
Spoken == codec.semantic \/ codec.finish \in {"content_filter", "length"}

End ==
    /\ phase = "streaming" /\ phase' = "ended"
    /\ options.strict => Complete /\ Spoken
    /\ codec' = Emit(Emit(CloseOpen(Started(codec)), Event("message_delta", 0, StopReason(codec.finish), << >>)),
                     Event("message_stop", 0, "message", << >>))
    /\ UNCHANGED <<options, chunks>>

CodecNext == Push \/ PushBare \/ PushDone \/ Throw \/ End
CodecSpec == CodecInit /\ [][CodecNext]_codecVars

--------------------------------------------------------------------------------
(* Whole messages: sequences of blocks with a body, and parts where nested.    *)

MessageBlocks == [kind : BlockKinds, body : Seq(Nat)]
Block(kind, body) == [kind |-> kind, body |-> body]
OfKind(message, kind) == Only(message, {b \in MessageBlocks : b.kind = kind})

\* A delta without a block is passed over.
Folded(blocks, e) ==
    LET at == e.index + 1
    IN  IF e.type = "block_start" THEN Append(blocks, Block(e.kind, << >>))
        ELSE IF e.type = "delta" /\ at \in DOMAIN blocks
        THEN [blocks EXCEPT ![at] = Block(blocks[at].kind, blocks[at].body \o e.body)]
        ELSE blocks

Blocks(events) ==
    LET blocks[k \in 0..Len(events)] == IF k = 0 THEN << >> ELSE Folded(blocks[k - 1], events[k])
    IN  blocks[Len(events)]

\* collectAnthropicStream: a text that stayed empty is left out.
Collected(events) == Only(Blocks(events), {b \in MessageBlocks : b.kind # "text" \/ b.body # << >>})

\* The completion the same upstream would have answered without streaming.
CallIndices == {c.index : c \in UNION {ToSet(chunks[n].calls) : n \in DOMAIN chunks}}
Arguments(calls, i, n) ==
    Flat([k \in DOMAIN calls |-> IF calls[k].index = i /\ calls[k].args THEN <<n>> ELSE << >>])
Completion ==
    LET Pieces(set) == Only([n \in DOMAIN chunks |-> n], set)
    IN  [reasoning |-> Pieces({n \in DOMAIN chunks : chunks[n].reasoning}),
         content |-> Pieces({n \in DOMAIN chunks : chunks[n].content}),
         calls |-> [i \in CallIndices |-> Flat([n \in DOMAIN chunks |-> Arguments(chunks[n].calls, i, n)])]]

\* openaiToAnthropicMessage, with the calls in some order.
Direct(completion) ==
    LET Said(kind, body) == IF body = << >> THEN << >> ELSE <<Block(kind, body)>>
    IN  (IF options.keep THEN Said("thinking", completion.reasoning) ELSE << >>)
        \o Said("text", completion.content)
        \o [k \in 1..Cardinality(CallIndices) |-> Block("tool", completion.calls[SetToSeq(CallIndices)[k]])]

\* anthropicMessageToSse: every block whole, text and reasoning only when there is some.
Frames(block, index) ==
    <<Event("block_start", index, block.kind, << >>)>>
    \o (IF block.body = << >> /\ block.kind # "tool" THEN << >>
        ELSE <<Event("delta", index, block.kind, block.body)>>)
    \o <<Event("block_stop", index, block.kind, << >>)>>
Synthesised(message) == Flat([k \in DOMAIN message |-> Frames(message[k], k - 1)])

\* Mistral's document: one block whose text is the list of the blocks.
Nested(message) == <<[kind |-> "text", parts |-> message]>>

\* pushBlock: nested lists are unfolded; reasoning without text is dropped.
PushedBlocks(document) ==
    Flat([k \in DOMAIN document |->
            Only(document[k].parts, {b \in MessageBlocks : b.kind # "thinking" \/ b.body # << >>})])

Compact(message) == Only(message, {b \in MessageBlocks : b.kind = "tool" \/ b.body # << >>})

\* normalizeAnthropicMessage: an answer of reasoning alone becomes its text.
Normalized(document, keep) ==
    LET expanded == PushedBlocks(document)
        blocks == Only(Compact(expanded), {b \in MessageBlocks : keep \/ b.kind # "thinking"})
        text == Flat([k \in DOMAIN expanded |-> IF expanded[k].kind = "tool" THEN << >> ELSE expanded[k].body])
    IN  IF blocks = << >> /\ text # << >> THEN <<Block("text", text)>> ELSE blocks

Words(message, kind) == Flat([k \in DOMAIN message |-> IF message[k].kind = kind THEN message[k].body ELSE << >>])

\* anthropicToOpenAI: what an assistant's message is when it returns as history.
Replayed(message) ==
    [reasoning |-> Words(message, "thinking"), content |-> Words(message, "text"),
     calls |-> [k \in DOMAIN OfKind(message, "tool") |-> OfKind(message, "tool")[k].body]]

--------------------------------------------------------------------------------
EventTypes == {"message_start", "block_start", "delta", "block_stop", "message_delta", "message_stop"}
Events == [type : EventTypes, index : Nat, body : Seq(Nat),
           kind : BlockKinds \cup {"message", "max_tokens", "tool_use", "end_turn"}]

\* The state of the encoder; a call, once it came, has a block.
Codecs ==
    [started : BOOLEAN, next : Nat, open : {NoBlock} \cup [index : Nat, kind : BlockKinds],
     tools : [CallNumbers -> Nat \cup {NoBlock}], finish : Finishes, done : BOOLEAN,
     semantic : BOOLEAN, events : Seq(Events)]

CodecTypeOK ==
    /\ options \in [strict : BOOLEAN, keep : BOOLEAN]
    /\ chunks \in Seq(Deltas) /\ Len(chunks) <= MaxChunks
    /\ phase \in {"streaming", "ended", "failed"}
    /\ codec \in Codecs

\* How many of the first n events are of a type.
Tally(events, n, type) == Cardinality({k \in 1..n : events[k].type = type})

\* Where the blocks stand before the n-th event: the number of the last one
\* started, and whether it is still open.
LastBlock(events, n) == Tally(events, n - 1, "block_start") - 1
BlockIsOpen(events, n) == Tally(events, n - 1, "block_start") = Tally(events, n - 1, "block_stop") + 1
AllStopped(events, n) == Tally(events, n - 1, "block_start") = Tally(events, n - 1, "block_stop")

StartedBefore(events, n, index, kind) ==
    \E k \in 1..(n - 1) : events[k] = Event("block_start", index, kind, << >>)

\* A call that comes back writes into a block of its own that was stopped.
WellPlaced(events, n) ==
    LET e == events[n] IN
    /\ (e.type = "message_start") <=> (n = 1)
    /\ e.type = "block_start" => e.index = LastBlock(events, n) + 1 /\ AllStopped(events, n)
    /\ e.type = "block_stop" => e.index = LastBlock(events, n) /\ BlockIsOpen(events, n)
    /\ e.type = "delta" =>
          /\ StartedBefore(events, n, e.index, e.kind)
          /\ e.kind = "tool" \/ (e.index = LastBlock(events, n) /\ BlockIsOpen(events, n))
    /\ e.type = "message_stop" => AllStopped(events, n)

\* Messages events keep the shape clients parse: message_start first and once,
\* blocks numbered from zero in order, at most one open at a time, a text or a
\* reasoning delta only into the open block, and before message_stop every
\* block stopped (push and end of createAnthropicStreamCodec).
StreamShape ==
    \A n \in DOMAIN codec.events :
        /\ WellPlaced(codec.events, n)
        /\ codec.events[n].type = "message_stop" => n = Len(codec.events)

\* However an upstream splits and orders the pieces of its answer, the events
\* folded again carry what the unstreamed conversion of the answer carries:
\* the same text, the same reasoning, the same arguments for every call; the
\* stream made from that message and a nested document of it keep it whole;
\* and as history it says upstream what upstream had said.
FoldKeepsAnswer ==
    phase = "ended" =>
        LET folded == Collected(codec.events)
            direct == Direct(Completion)
        IN  /\ \A kind \in {"text", "thinking"} : Words(folded, kind) = Words(direct, kind)
            /\ ToBag(OfKind(folded, "tool")) = ToBag(OfKind(direct, "tool"))
            /\ Collected(Synthesised(folded)) = folded
            /\ options.keep =>
                  /\ Compact(Normalized(Nested(folded), TRUE)) = Compact(folded)
                  /\ Replayed(folded).content = Completion.content
                  /\ Replayed(folded).reasoning = Completion.reasoning
            /\ folded # << >> => Normalized(Nested(folded), FALSE) # << >>
================================================================================
