--------------------------- MODULE ProviderClient ---------------------------
(***************************************************************************)
(* The calls the engine makes to hosted models: chat completions with      *)
(* retry (llm.rs), Jina embeddings in batches with retry (engine/jina.rs), *)
(* and the calls made once only: OpenAI embeddings, streamed answers, tool *)
(* steps, OCR, rerank and transcription.  A call is a record per caller;   *)
(* its steps are the provider's replies and the end of a backoff delay.    *)
(* Payloads are model values: a vector is named by the input it embeds, a  *)
(* token by its position in the answer, 0 once decoding has damaged it.    *)
(* The model client has no timeout, the embedders, OCR and the reranker do.*)
(***************************************************************************)
EXTENDS Naturals, Sequences, SequencesExt

CONSTANTS
    Caller,      \* tasks that call a provider, one call at a time each
    Attempts,    \* requests per retried call (4 in the source)
    Batch        \* inputs per embedding request (64 for Jina, 128 for OpenAI)

ASSUME ClientAssumption == Attempts \in Nat \ {0} /\ Batch \in Nat \ {0}

VARIABLE calls   \* the provider call of every caller

RetriedKind == {"chat", "embed", "whole"}
BatchedKind == {"embed", "openai"}
StreamedKind == {"stream", "whole"}     \* "whole": Gemini's, not streamed by it
UntimedKind == {"chat", "tools", "stream", "whole", "transcribe"}
SingleKind == {"openai", "stream", "tools", "ocr", "rerank", "transcribe"}
CallKind == RetriedKind \cup SingleKind

\* How a request can fail: no connection or a timeout; 429 or 5xx with a JSON
\* body; another status; a body that is not what the client parses.  The body
\* is parsed before the status is looked at, so a gateway page is "garbled".
Failure == {"unreachable", "busy", "refused", "garbled"}

is_transient(e) == e \in {"unreachable", "busy"}

NoCall == [st |-> "idle", kind |-> "chat", asked |-> <<>>, pos |-> 0,
           out |-> <<>>, attempt |-> 0]

ClientInit == calls = [c \in Caller |-> NoCall]

\* The record of a call just sent: kind, and the inputs or the answer's tokens.
NewCall(kind, asked) ==
    [st |-> "sent", kind |-> kind, asked |-> asked, pos |-> 0,
     out |-> <<>>, attempt |-> 0]

-----------------------------------------------------------------------------
\* The inputs of the request in flight.
Request(c) ==
    LET last == calls[c].pos + Batch
    IN  SubSeq(calls[c].asked, calls[c].pos + 1,
               IF last < Len(calls[c].asked) THEN last ELSE Len(calls[c].asked))

\* The ways to arrange a sequence.
Orders(s) == Bijection(DOMAIN s, DOMAIN s)

\* What a provider may return for a batch: its vectors in any order, each with
\* its index, and possibly fewer than asked.
BatchReply(batch) ==
    LET full == {[i \in DOMAIN batch |-> [index |-> p[i], vec |-> batch[p[i]]]] :
                    p \in Orders(batch)}
    IN  full \cup {Tail(r) : r \in full}

\* Mutant: vectors in the order they came back.
AsReturned(reply) == [i \in DOMAIN reply |-> reply[i].vec]

\* Sorted by index.
InIndexOrder(reply) ==
    LET sorted == CHOOSE q \in Orders(reply) :
                     \A i, j \in DOMAIN reply :
                        i < j => reply[q[i]].index <= reply[q[j]].index
    IN  [i \in DOMAIN reply |-> reply[sorted[i]].vec]

\* A reply with one vector per input is put in index order and the next batch,
\* if any, is sent with a fresh retry budget; any other reply ends the call.
AfterReply(call, request, reply) ==
    LET done == call.pos + Len(request)
    IN  IF Len(reply) # Len(request) THEN [call EXCEPT !.st = "err"]
        ELSE [call EXCEPT !.out = @ \o InIndexOrder(reply), !.pos = done,
                          !.attempt = 0,
                          !.st = IF done = Len(call.asked) THEN "ok" ELSE "sent"]

embed_batch(c) ==
    /\ calls[c].st = "sent" /\ calls[c].kind \in BatchedKind
    /\ \E reply \in BatchReply(Request(c)) :
         calls' = [calls EXCEPT ![c] = AfterReply(@, Request(c), reply)]

Returned(c, kind, st) ==
    /\ calls[c].st = "sent" /\ calls[c].kind = kind
    /\ calls' = [calls EXCEPT ![c].st = st]

\* A completion, also one whose content is missing (it counts as empty).
complete_once(c) == Returned(c, "chat", "ok")

\* A step of a tool conversation, sent once to an OpenAI-compatible provider.
chat_with_tools(c) == Returned(c, "tools", "ok")

transcribe(c) == Returned(c, "transcribe", "ok")

\* A page without text is an error.
ocr(c) == Returned(c, "ocr", "ok") \/ Returned(c, "ocr", "err")

\* The documents ranked, best first; the reranker may leave some out.
rerank(c) ==
    /\ calls[c].st = "sent" /\ calls[c].kind = "rerank"
    /\ \E ranked \in BatchReply(calls[c].asked) :
         calls' = [calls EXCEPT ![c].st = "ok",
                                ![c].out = [i \in DOMAIN ranked |-> ranked[i].vec]]

\* A line of the stream hands its token to the caller, or none: lines that are
\* not data or do not parse are skipped.  Every packet is decoded on its own, so
\* a character cut in two by packets comes out damaged.
stream_line(c) ==
    /\ calls[c].st = "sent" /\ calls[c].kind = "stream"
    /\ calls[c].pos < Len(calls[c].asked)
    /\ \E handed \in {<<calls[c].pos + 1>>, <<0>>, <<>>} :
         calls' = [calls EXCEPT ![c].pos = @ + 1, ![c].out = @ \o handed]

\* An answer that Gemini completes is handed over as one token, all of it.
complete_whole(c) ==
    /\ calls[c].st = "sent" /\ calls[c].kind = "whole"
    /\ calls' = [calls EXCEPT ![c].st = "ok", ![c].pos = Len(calls[c].asked),
                              ![c].out = [i \in DOMAIN calls[c].asked |-> i]]

\* The stream closes: the end of the body is the end of the answer, also when
\* it comes early; what follows the last line break is not looked at.
stream_end(c) ==
    /\ calls[c].st = "sent" /\ calls[c].kind = "stream"
    /\ calls' = [calls EXCEPT ![c].st = "ok"]

\* Only completions and Jina embedding requests are retried, only on errors that look
\* transient, and never past the last attempt.
Retries(call, e) ==
    call.kind \in RetriedKind /\ is_transient(e) /\ call.attempt + 1 < Attempts

\* Mutants: attempts are not counted; every kind is retried, a stream from its
\* start; one attempt too many.
AfterFailureUncounted(call, e) ==
    [call EXCEPT !.st = IF Retries(call, e) THEN "backoff" ELSE "err"]
AfterFailureOfAny(call, e) ==
    IF is_transient(e) /\ call.attempt + 1 < Attempts
    THEN [call EXCEPT !.st = "backoff", !.attempt = @ + 1,
                      !.pos = IF call.kind = "stream" THEN 0 ELSE @]
    ELSE [call EXCEPT !.st = "err"]
AfterFailureLate(call, e) ==
    IF call.kind \in RetriedKind /\ is_transient(e) /\ call.attempt < Attempts
    THEN [call EXCEPT !.st = "backoff", !.attempt = @ + 1]
    ELSE [call EXCEPT !.st = "err"]

AfterFailure(call, e) ==
    IF Retries(call, e)
    THEN [call EXCEPT !.st = "backoff", !.attempt = @ + 1]
    ELSE [call EXCEPT !.st = "err"]

request_fails(c) ==
    /\ calls[c].st = "sent"
    /\ \E e \in Failure : calls' = [calls EXCEPT ![c] = AfterFailure(@, e)]

\* A model that accepts the request and never answers: the client waits.
provider_silent(c) ==
    /\ calls[c].st = "sent" /\ calls[c].kind \in UntimedKind
    /\ calls' = [calls EXCEPT ![c].st = "silent"]

backoff_ends(c) ==
    /\ calls[c].st = "backoff"
    /\ calls' = [calls EXCEPT ![c].st = "sent"]

\* A task that only calls a provider: an answer streamed to the user, a query
\* embedded, a page read by OCR.
call_starts(c, kind, asked) ==
    /\ calls[c].st = "idle"
    /\ calls' = [calls EXCEPT ![c] = NewCall(kind, asked)]

call_returns(c) ==
    /\ calls[c].st \in {"ok", "err"}
    /\ calls' = [calls EXCEPT ![c] = NoCall]

ClientStep(c) ==
    \/ embed_batch(c)    \/ complete_once(c)   \/ chat_with_tools(c) \/ transcribe(c)
    \/ ocr(c)            \/ rerank(c)          \/ stream_line(c)     \/ stream_end(c)
    \/ complete_whole(c) \/ provider_silent(c) \/ request_fails(c)   \/ backoff_ends(c)

-----------------------------------------------------------------------------
ClientTypeOK ==
    calls \in [Caller -> [st : {"idle", "sent", "backoff", "silent", "ok", "err"},
                          kind : CallKind, asked : Seq(Nat), pos : Nat,
                          out : Seq(Nat), attempt : 0 .. Attempts - 1]]

\* Embedding hands back vector i for input i: the callers zip inputs with
\* vectors (mod.rs add_document, index_edges), so a reply in another order, a
\* short reply or a retried batch must never shift them.
VectorsMatchInputs ==
    \A c \in Caller :
        calls[c].st = "ok" /\ calls[c].kind \in BatchedKind
            => calls[c].out = calls[c].asked

\* Tokens handed over in the order of the answer, none of them twice, when the
\* answer has n; damaged ones may be any.
HandedOnce(out, n) ==
    /\ Len(out) <= n
    /\ \A i \in DOMAIN out : out[i] <= n
    /\ \A i, j \in DOMAIN out : i < j /\ out[i] # 0 /\ out[j] # 0 => out[i] < out[j]

\* A streamed answer that fails half way is not started again: what the user has
\* seen is one answer, in order and nothing twice, though lines may be missing
\* from it and characters damaged.
TokensDeliveredOnce ==
    \A c \in Caller :
        calls[c].kind \in StreamedKind => HandedOnce(calls[c].out, Len(calls[c].asked))
=============================================================================
