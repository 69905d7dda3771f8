---------------------------- MODULE AnswerStream ----------------------------
(***************************************************************************)
(* How the answer of one CLI run reaches the chat: the lines the CLI       *)
(* prints (translateEvent in src/bridge/jsonl-session.ts), the stream      *)
(* buffer with its timer and its chain of flushes, and the delivery of the *)
(* completed answer (processMessage in src/bridge/jsonl-bridge.ts), as a   *)
(* row of messages or, with the normalised output, as one response that    *)
(* the gateway renders (normalize.ts, gateway/telegram-renderer.ts).       *)
(*                                                                         *)
(* A text is a sequence of letters and line breaks.  It carries neither a  *)
(* directive (/spawn, Sendfile, a tool call) nor Markdown, and no tool and *)
(* no error is reported.  Between the start of a request to the gateway    *)
(* and its answer other events are handled.                                *)
(***************************************************************************)
EXTENDS Naturals, Sequences, SequencesExt, FiniteSetsExt

CONSTANTS
  Letters,
  Break,       \* the line break, the only white space
  Pieces,      \* what one event may report
  NoResponse,  \* the letter that stands for "(no response)"
  Clis,        \* the formats of the CLIs that may run
  MinChars,    \* STREAM_MIN_CHARS, 800 in the code
  MaxLength,   \* of a message, 4000 in the code
  MaxText      \* bounds what the CLI says

Symbols == Letters \cup {Break}

ASSUME AnswerStreamAssumption ==
  /\ NoResponse \notin Letters \cup {Break} /\ Break \notin Letters
  /\ Clis \subseteq {"claude", "codex", "pi"}
  /\ MinChars \in Nat \ {0} /\ MaxLength \in Nat \ {0}
  /\ MaxText \in Nat
  /\ \A t \in Pieces : t \in Seq(Symbols) /\ t # <<>>

VARIABLES
  cli,           \* the format of this run: Droid's lines are like Claude's
  lastText,      \* session._lastText
  merged,        \* normalizationEvents, as their texts merge
  streaming,     \* the chat's /stream setting
  buffer,        \* streamBuffer
  lastStreamed,  \* lastStreamedBuffer
  edited,        \* streamedTextForEdit
  truncated,     \* streamTruncated
  messageId,     \* streamMessageId: a place in chat, 0 for undefined
  timer,         \* whether streamTimer is set
  chain,         \* the flushes chained behind the one that awaits its request
  requests,      \* the requests of flushes to the gateway
  phase,         \* how far the handler of the completed event is
  answer,        \* evt.answer
  toSend,        \* what it has left to send, before it is split into messages
  chat,          \* the messages the chat shows
  said,          \* ghost: all the CLI said
  excuses        \* ghost: what may keep the answer from being shown

bufferVars == <<buffer, lastStreamed, edited, truncated, messageId, timer, chain, requests>>
vars == <<cli, lastText, merged, streaming, bufferVars, phase, answer, toSend, chat, said, excuses>>

-----------------------------------------------------------------------------
(* White space.                                                            *)

Inked(text) == {i \in 1 .. Len(text) : text[i] # Break}

IsBlank(text) == Inked(text) = {}

TrimStart(text) == SubSeq(text, Min(Inked(text) \cup {Len(text) + 1}), Len(text))

Trim(text) == TrimStart(SubSeq(text, 1, Max(Inked(text) \cup {0})))

Ink(text) ==
  LET ink[n \in 0 .. Len(text)] ==
        IF n = 0 THEN <<>>
        ELSE IF text[n] = Break THEN ink[n - 1]
        ELSE Append(ink[n - 1], text[n])
  IN  ink[Len(text)]

-----------------------------------------------------------------------------
(* splitMessage, which the gateway repeats as splitTelegramMessage.        *)

\* The line breaks before which the first chunk of a longer text may end.
Breaks(text) == {k \in 0 .. MaxLength : text[k + 1] = Break}

\* Faulty variant: splits at a line break however early.
SplitAtAnyBreak(text) == IF Breaks(text) = {} THEN MaxLength ELSE Max(Breaks(text))

SplitAt(text) ==
  IF Breaks(text) # {} /\ 2 * Max(Breaks(text)) >= MaxLength
    THEN Max(Breaks(text)) ELSE MaxLength

\* Nothing is sent for an empty text; a longer one loses the white space
\* where it is split.
FirstChunk(text) ==
  IF Len(text) <= MaxLength THEN text ELSE SubSeq(text, 1, SplitAt(text))

AfterFirst(text) ==
  IF Len(text) <= MaxLength THEN <<>>
  ELSE TrimStart(SubSeq(text, SplitAt(text) + 1, Len(text)))

-----------------------------------------------------------------------------
\* A snapshot of the text so far replaces what there is, an older one is
\* ignored, anything else is appended.
Joined(current, t) ==
  IF IsPrefix(current, t) THEN t
  ELSE IF IsPrefix(t, current) THEN current
  ELSE current \o t

-----------------------------------------------------------------------------
Init ==
  /\ cli \in Clis
  /\ streaming \in BOOLEAN
  /\ lastText = <<>> /\ merged = <<>> /\ buffer = <<>> /\ lastStreamed = <<>> /\ edited = <<>>
  /\ truncated = FALSE /\ messageId = 0
  /\ timer = FALSE /\ chain = 0 /\ requests = {}
  /\ phase = "running" /\ answer = <<>> /\ toSend = <<>>
  /\ chat = <<>> /\ said = <<>> /\ excuses = {}

(* The flushes.  flushStreamBuffer chains flushStreamBufferInternal behind *)
(* the flush in progress, so that a request starts when none is under way. *)

\* The second condition holds of every text that is news.
HasNews(b) ==
  /\ ~IsBlank(SubSeq(b, Len(lastStreamed) + 1, Len(b)))
  /\ ~(messageId # 0 /\ Trim(b) = edited)

\* Faulty variant: no word of the text being cut.
RequestCutSilently(b) ==
  [text |-> FirstChunk(Trim(b)), truncated |-> FALSE, id |-> messageId]

Request(b) ==
  [text |-> FirstChunk(Trim(b)), truncated |-> Len(Trim(b)) > MaxLength, id |-> messageId]

\* Faulty variant: no chain, the flush starts at once.
FlushUnchained(b, armed, excused) ==
  /\ timer' = FALSE
  /\ requests' = IF HasNews(b) THEN requests \cup {Request(b)} ELSE requests
  /\ excuses' = excused \ {"late"}
  /\ UNCHANGED <<lastStreamed, edited, truncated, messageId, chain>>

\* b is the buffer, which a request carries whole, so that nothing is late;
\* armed is what becomes of the timer while the flush waits for its turn.
Flush(b, armed, excused) ==
  /\ \/ /\ requests = {}
        /\ timer' = FALSE
        /\ requests' = IF HasNews(b) THEN {Request(b)} ELSE {}
        /\ excuses' = IF HasNews(b) THEN excused \ {"late"} ELSE excused
        /\ UNCHANGED chain
     \/ /\ requests # {}
        /\ chain' = chain + 1
        /\ timer' = armed
        /\ excuses' = excused
        /\ UNCHANGED requests
  /\ UNCHANGED <<lastStreamed, edited, truncated, messageId>>

\* The buffer is compared with what it is now, not with what was sent: text
\* that came meanwhile counts as streamed, and the flushes that are chained
\* behind find nothing new.
Landed(r, ok) ==
  /\ r \in requests
  /\ requests' = requests \ {r}
  /\ lastStreamed' = buffer
  /\ edited' = r.text
  /\ truncated' = r.truncated
  /\ chat' = IF ~ok THEN chat
             ELSE IF r.id = 0 THEN Append(chat, r.text)
             ELSE [chat EXCEPT ![r.id] = r.text]
  /\ messageId' = IF r.id = 0 /\ ok THEN Len(chat') ELSE r.id
  /\ excuses' = IF ok THEN excuses ELSE excuses \cup {"refused"}
  /\ UNCHANGED <<cli, lastText, merged, streaming, buffer, phase, answer, toSend, said>>

\* Faulty variant: the flushes chained behind never run.
FlushedStuck(r, ok) ==
  /\ Landed(r, ok)
  /\ UNCHANGED <<chain, timer>>

Flushed(r, ok) ==
  /\ Landed(r, ok)
  /\ chain' = 0
  /\ timer' = (timer /\ chain = 0)

TimerFires ==
  /\ timer
  /\ Flush(buffer, FALSE, excuses)
  /\ UNCHANGED <<cli, lastText, merged, streaming, buffer, phase, answer, toSend, chat, said>>

-----------------------------------------------------------------------------
(* The CLI's lines.                                                        *)

Buffer(t) ==
  LET excused == excuses \cup (IF requests # {} THEN {"late"} ELSE {})
  IN  /\ buffer' = Joined(buffer, t)
      /\ \/ /\ Len(buffer') >= MinChars
            /\ Flush(buffer', timer, excused)
         \/ /\ Len(buffer') < MinChars
            /\ timer' = TRUE
            /\ excuses' = excused
            /\ UNCHANGED <<lastStreamed, edited, truncated, messageId, chain, requests>>

\* A text event of the session.
Hear(t) ==
  /\ said' = said \o t
  /\ merged' = Joined(merged, t)
  /\ \/ streaming /\ Buffer(t)
     \/ ~streaming /\ UNCHANGED <<bufferVars, excuses>>
  /\ UNCHANGED <<cli, streaming, phase, answer, toSend, chat>>

\* Claude, Droid and Codex report blocks of text, Pi the growth of one.
SaysBlock(t) ==
  /\ phase = "running" /\ cli # "pi"
  /\ lastText' = t
  /\ Hear(t)

SaysDelta(t) ==
  /\ phase = "running" /\ cli = "pi"
  /\ lastText' = lastText \o t
  /\ Hear(t)

\* Pi's message_start.
NextMessage ==
  /\ phase = "running" /\ cli = "pi" /\ lastText # <<>>
  /\ lastText' = <<>>
  /\ UNCHANGED <<cli, merged, streaming, bufferVars, phase, answer, toSend, chat, said, excuses>>

\* The answer that the last line stands for: Claude may repeat the last text,
\* leave it out or give another one.  Pi's message_end, turn_end and agent_end may
\* give one too.
Answers ==
  CASE cli = "claude" -> {lastText} \cup Pieces
    [] cli = "codex"  -> {lastText}
    [] cli = "pi"     -> {IF lastText = <<>> THEN <<NoResponse>> ELSE lastText} \cup Pieces

\* Faulty variant: what is buffered is not flushed.
CompletedUnflushed(a) ==
  /\ phase = "running"
  /\ answer' = a
  /\ phase' = IF streaming THEN "flushing" ELSE "flushed"
  /\ timer' = FALSE
  /\ UNCHANGED <<cli, lastText, merged, streaming, buffer, lastStreamed, edited, truncated, messageId,
                 chain, requests, toSend, chat, said, excuses>>

\* The completed event, up to the handler's first await.
Completed(a) ==
  /\ phase = "running"
  /\ answer' = a
  /\ \/ /\ streaming
        /\ phase' = "flushing"
        /\ Flush(buffer, FALSE, excuses)
     \/ /\ ~streaming
        /\ phase' = "flushed"
        /\ timer' = FALSE
        /\ UNCHANGED <<lastStreamed, edited, truncated, messageId, chain, requests, excuses>>
  /\ UNCHANGED <<cli, lastText, merged, streaming, buffer, toSend, chat, said>>

\* The process ends without an answer, as after /stop: what is buffered is
\* still flushed.
Dies ==
  /\ phase = "running"
  /\ phase' = "dead"
  /\ UNCHANGED <<cli, lastText, merged, streaming, bufferVars, answer, toSend, chat, said, excuses>>

-----------------------------------------------------------------------------
(* The delivery of the answer.                                             *)

\* What is still to be sent once the last flush is over.
Rest ==
  IF ~streaming THEN answer
  ELSE IF IsBlank(answer) THEN <<>>
  ELSE IF messageId = 0 THEN answer
  ELSE IF ~truncated THEN <<>>
  ELSE IF IsPrefix(edited, Trim(answer))
    THEN Trim(SubSeq(Trim(answer), Len(edited) + 1, Len(Trim(answer))))
  ELSE Trim(answer)

\* The normalised response, of which the completed event is a part, and of
\* which the gateway makes messages.
Normalized == Trim(Joined(merged, answer))

\* Whether the normalised output is on is only asked here.
Deliver ==
  /\ \/ phase = "flushing" /\ requests = {} /\ chain = 0
     \/ phase = "flushed"
  /\ \/ phase' = "sending" /\ toSend' = Rest
     \/ ~streaming /\ phase' = "rendering" /\ toSend' = Normalized
  /\ UNCHANGED <<cli, lastText, merged, streaming, bufferVars, answer, chat, said, excuses>>

Told(ok) ==
  /\ toSend # <<>>
  /\ chat' = IF ok THEN Append(chat, FirstChunk(toSend)) ELSE chat
  /\ excuses' = IF ok THEN excuses ELSE excuses \cup {"refused"}
  /\ UNCHANGED <<cli, lastText, merged, streaming, bufferVars, phase, answer, said>>

\* The bridge goes on with the next message after a refusal, ...
Send(ok) ==
  /\ phase = "sending" /\ Told(ok)
  /\ toSend' = AfterFirst(toSend)

\* ... the gateway ends what it renders.
Render(ok) ==
  /\ phase = "rendering" /\ Told(ok)
  /\ toSend' = IF ok THEN AfterFirst(toSend) ELSE <<>>

Done ==
  /\ phase \in {"sending", "rendering"} /\ toSend = <<>>
  /\ phase' = "done"
  /\ UNCHANGED <<cli, lastText, merged, streaming, bufferVars, answer, toSend, chat, said, excuses>>

\* /stream, given once at most, while the setting is still to be read.
Toggle ==
  /\ phase \in {"running", "flushing", "flushed"} /\ "toggled" \notin excuses
  /\ streaming' = ~streaming
  /\ excuses' = excuses \cup {"toggled"}
  /\ UNCHANGED <<cli, lastText, merged, bufferVars, phase, answer, toSend, chat, said>>

-----------------------------------------------------------------------------
CliPrints ==
  \/ \E t \in Pieces : Len(said) + Len(t) <= MaxText /\ (SaysBlock(t) \/ SaysDelta(t))
  \/ NextMessage
  \/ \E a \in Answers : Completed(a)
  \/ Dies

GatewayAnswers ==
  \/ \E r \in requests, ok \in BOOLEAN : Flushed(r, ok)
  \/ \E ok \in BOOLEAN : Send(ok) \/ Render(ok)

Next == CliPrints \/ GatewayAnswers \/ TimerFires \/ Deliver \/ Done \/ Toggle

Spec == Init /\ [][Next]_vars

\* The gateway answers, or refuses, every request, and what awaits it goes on.
Fairness == WF_vars(GatewayAnswers) /\ WF_vars(Deliver) /\ WF_vars(Done) /\ WF_vars(TimerFires)

FairSpec == Spec /\ Fairness

-----------------------------------------------------------------------------
(* Properties.                                                             *)

\* All the chat shows, one message after the other.
Together(messages) ==
  LET together[n \in 0 .. Len(messages)] ==
        IF n = 0 THEN <<>> ELSE together[n - 1] \o messages[n]
  IN  together[Len(messages)]

Shown == Together(chat)

\* Whether the chat shows the text, wherever messages and lines are broken.
Shows(text) == Ink(text) \in SubSeqs(Ink(Shown))

\* Types; in particular no message is empty or longer than the gateway can
\* send, wherever a text is split.
TypeOK ==
  /\ cli \in Clis /\ streaming \in BOOLEAN
  /\ phase \in {"running", "dead", "flushing", "flushed", "sending", "rendering", "done"}
  /\ \A text \in {lastText, merged, buffer, lastStreamed, edited, said} : text \in Seq(Symbols)
  /\ answer \in Seq(Symbols \cup {NoResponse})
  /\ timer \in BOOLEAN /\ truncated \in BOOLEAN /\ chain \in Nat
  /\ messageId \in 0 .. Len(chat)
  /\ \A r \in requests : r.id \in 0 .. Len(chat)
  /\ \A i \in 1 .. Len(chat) : Len(chat[i]) \in 1 .. MaxLength

\* What the chat has shown is not taken back: however the timer, long texts
\* and the completed handler call for flushes, a streamed message only grows,
\* until the text outgrows a message and is split at a line break, and from
\* then on it stays as it is.  After a refusal the cut may be marked as made
\* although the chat does not show it yet.
ShownOnlyGrows ==
  [][/\ Len(chat') >= Len(chat)
     /\ \A i \in 1 .. Len(chat) :
          \/ IsPrefix(chat[i], chat'[i])
          \/ /\ ~truncated \/ "refused" \in excuses
             /\ truncated'
             /\ IsPrefix(chat'[i], chat[i])]_vars

\* Whether the buffer was told all that the answer is made of.
Heard == IF streaming THEN answer \in SubSeqs(buffer) \/ messageId = 0 ELSE TRUE

\* An answer that is heard is shown as a whole, streamed, split, rendered by
\* the gateway or several of these, unless a request was refused, the setting
\* changed meanwhile, or text came while the last flush awaited the gateway.
\* Nothing repeats a refused request, of which docs/e2e-test-plan.md:283-290
\* expects that it is sent again.
AnswerShownUnlessExcused ==
  phase = "done" /\ excuses = {} /\ Heard => Shows(answer)

\* The chat shows what one message of Pi says in its order, without gaps and
\* without saying anything twice, wherever streamed messages and the chunks
\* of the remainder are cut, and when the gateway that renders it meets a
\* refusal, as long as the end of the run gives no other text.
ShownInOrder ==
  /\ cli = "pi" /\ said = lastText /\ merged = said
  /\ "toggled" \notin excuses
  /\ "refused" \in excuses => phase = "rendering"
  /\ answer \in {<<>>, said}
  => IsPrefix(Ink(Shown), Ink(said))

\* An answer is delivered in the end, with any flushes chained before it.
CompletedEnds == phase \in {"flushing", "flushed"} ~> phase = "done"

-----------------------------------------------------------------------------
(* What the documents say and the code does not do.                        *)

\* docs/e2e-test-plan.md:105: with streaming on, the final message contains
\* the answer.  Text that comes while a flush awaits the gateway counts as
\* streamed although no request ever carries it.
AnswerIsShown ==
  phase = "done" /\ Heard /\ excuses \cap {"toggled", "refused"} = {} => Shows(answer)
=============================================================================
