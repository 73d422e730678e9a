----------------------------- MODULE Generation -----------------------------
(***************************************************************************)
(* Concurrent text generation: MrmlEngine::generate_stream                 *)
(* (crates/mrml-tensor/src/engine.rs), the part of MrmlModel that keeps    *)
(* state between calls (model.rs) and the channel each request is answered *)
(* on (crates/mrml-model/src/engine.rs).  The server runs a thread per     *)
(* connection and every one of them starts requests on the one engine.     *)
(*                                                                         *)
(* A request holds the model's mutex for one call at a time, so a call is  *)
(* a step and requests interleave between calls.  What the network         *)
(* computes is represented by what it was computed from: a row of the KV   *)
(* cache, and a hidden vector, is the sequence of tokens it depends on, or *)
(* Mixed when the rows it attended to do not belong to one sequence.       *)
(*                                                                         *)
(* On the GPU path (OnDevice) the rows are in buffers of the model, shared *)
(* by all requests, and a request's own cache holds Empty markers; the     *)
(* normalised hidden vector of the last token also stays on the device.    *)
(* On the host path a request's cache holds the rows themselves.  Of the   *)
(* layers one with full attention is kept; Capacity, which exceeds every   *)
(* prompt by more than MaxTokens, bounds the tokens of a request.          *)
(***************************************************************************)
EXTENDS Integers, Sequences, FiniteSets, SequencesExt

CONSTANTS Requests, Prompts,   \* Prompts[r]: the tokens of request r's prompt
          Tokens, Eog,         \* vocabulary and end-of-generation token
          MaxTokens, Capacity,
          OnDevice,            \* all layers resident on the device
          ChannelCapacity,
          Mixed, Empty, NoRow, None

VARIABLES
  phase,      \* of each request: init, step, piece, send or done
  state,      \* its GenerationState: history, hidden, cache
  token,      \* the token it sampled last
  generated,  \* how many it has emitted
  cancelled,  \* its cancel flag
  channel,    \* the pieces waiting for its reader
  open,       \* requests whose reader has not hung up
  prefix,     \* prompt_prefix_state
  rows,       \* the KV rows on the device
  resident,   \* the normalised hidden vector on the device
  ready,      \* gpu_normalized_ready
  draws       \* what each token was sampled from, and for which history

device == <<rows, resident, ready>>
vars == <<phase, state, token, generated, cancelled, channel, open, prefix, device, draws>>

NoState == [history |-> <<>>, hidden |-> <<>>, cache |-> <<>>]

Init ==
  /\ phase = [r \in Requests |-> "init"]
  /\ state = [r \in Requests |-> NoState]
  /\ token = [r \in Requests |-> None]
  /\ generated = [r \in Requests |-> 0]
  /\ cancelled = [r \in Requests |-> FALSE]
  /\ channel = [r \in Requests |-> <<>>]
  /\ open = Requests
  /\ prefix = None
  /\ rows = [k \in 1..Capacity |-> NoRow]
  /\ resident = <<>> /\ ready = FALSE
  /\ draws = {}
---------------------------------------------------------------------------
(* What the row at position k of a cache was computed from *)
RowAt(cache, k, devRows) == IF cache[k] = Empty THEN devRows[k] ELSE cache[k]

(* What attention over a whole cache depends on *)
Attended(cache, devRows) ==
  LET n == Len(cache)
      last == RowAt(cache, n, devRows)
  IN IF n = 0 THEN <<>>
     ELSE IF last \notin {Mixed, NoRow} /\ \A k \in 1..n : RowAt(cache, k, devRows) = SubSeq(last, 1, k)
       THEN last ELSE Mixed

Extended(context, t) == IF context = Mixed THEN Mixed ELSE Append(context, t)

(* forward_token: the state after one more token, and the device's rows *)
Forward(s, t, devRows) ==
  LET new == Extended(Attended(s.cache, devRows), t)
      n == Len(s.cache) + 1
  IN [state |-> [history |-> Append(s.history, t), hidden |-> new,
                 cache |-> Append(s.cache, IF OnDevice THEN Empty ELSE new)],
      rows |-> IF OnDevice THEN [devRows EXCEPT ![n] = new] ELSE devRows]

(* forward_token for each of a sequence of tokens *)
ForwardAll(s, tokens, devRows) ==
  FoldLeft(LAMBDA acc, t : Forward(acc.state, t, acc.rows),
           [state |-> s, rows |-> devRows], tokens)

(* prefill_cuda: the rows of the prompt are written from position 0, and   *)
(* neither the resident hidden vector nor its flag is touched.             *)
Prefilled(prompt) ==
  [state |-> [history |-> prompt, hidden |-> prompt,
              cache |-> [k \in DOMAIN prompt |-> Empty]],
   rows |-> [k \in DOMAIN rows |-> IF k \in DOMAIN prompt THEN SubSeq(prompt, 1, k) ELSE rows[k]]]

(* Does the next prompt extend the one that was processed last? *)
Extends(prompt) == prefix # None /\ IsPrefix(prefix.history, prompt)

Rest(prompt) == SubSeq(prompt, Len(prefix.history) + 1, Len(prompt))

(* forward_token leaves its result on the device and raises the flag. *)
Leaves(forwarded, hidden) ==
  /\ resident' = IF forwarded /\ OnDevice THEN hidden ELSE resident
  /\ ready' = IF forwarded THEN OnDevice ELSE ready

(* init_generation_state, called under the model's mutex *)
InitGeneration(r) ==
  /\ phase[r] = "init"
  /\ LET prompt == Prompts[r]
         new == IF Extends(prompt) THEN ForwardAll(prefix, Rest(prompt), rows)
                ELSE IF OnDevice THEN Prefilled(prompt)
                ELSE ForwardAll(NoState, prompt, rows)
     IN IF prompt = <<>>
          THEN phase' = [phase EXCEPT ![r] = "done"] /\ UNCHANGED <<state, prefix, device>>
          ELSE /\ phase' = [phase EXCEPT ![r] = "step"]
               /\ state' = [state EXCEPT ![r] = new.state]
               /\ prefix' = new.state
               /\ rows' = new.rows
               /\ Leaves(IF Extends(prompt) THEN Rest(prompt) # <<>> ELSE ~OnDevice,
                         new.state.hidden)
  /\ UNCHANGED <<token, generated, cancelled, channel, open, draws>>

(* The hidden vector a token is sampled from: the one on the device when   *)
(* the flag is up, the request's own otherwise.                            *)
Sampled(r) == IF ready THEN resident ELSE state[r].hidden

MayGoOn(r) == generated[r] < MaxTokens /\ ~cancelled[r]

(* step_generation, called under the model's mutex: sample, then run the   *)
(* network on the sampled token.                                           *)
StepGeneration(r, t) ==
  /\ phase[r] = "step" /\ MayGoOn(r)
  /\ LET new == Forward(state[r], t, rows)
     IN /\ state' = [state EXCEPT ![r] = new.state]
        /\ rows' = new.rows
        /\ Leaves(TRUE, new.state.hidden)
  /\ draws' = draws \cup {[history |-> state[r].history, from |-> Sampled(r)]}
  /\ token' = [token EXCEPT ![r] = t]
  /\ phase' = [phase EXCEPT ![r] = "piece"]
  /\ UNCHANGED <<generated, cancelled, channel, open, prefix>>

(* The loop ends at max_tokens or when the flag is set. *)
StopGeneration(r) ==
  /\ phase[r] = "step" /\ ~MayGoOn(r)
  /\ phase' = [phase EXCEPT ![r] = "done"]
  /\ UNCHANGED <<state, token, generated, cancelled, channel, open, prefix, device, draws>>

(* The token becomes text, again under the mutex; the end of generation    *)
(* is not emitted.                                                         *)
TokenToPiece(r) ==
  /\ phase[r] = "piece"
  /\ phase' = [phase EXCEPT ![r] = IF token[r] = Eog THEN "done" ELSE "send"]
  /\ generated' = [generated EXCEPT ![r] = IF token[r] = Eog THEN @ ELSE @ + 1]
  /\ UNCHANGED <<state, token, cancelled, channel, open, prefix, device, draws>>

(* emit: the piece is sent when there is room; a reader that hung up ends  *)
(* the request.                                                            *)
Emit(r) ==
  /\ phase[r] = "send"
  /\ \/ /\ r \in open /\ Len(channel[r]) < ChannelCapacity
        /\ channel' = [channel EXCEPT ![r] = Append(@, token[r])]
        /\ phase' = [phase EXCEPT ![r] = "step"]
     \/ /\ r \notin open
        /\ phase' = [phase EXCEPT ![r] = "done"]
        /\ UNCHANGED channel
  /\ UNCHANGED <<state, token, generated, cancelled, open, prefix, device, draws>>

Receive(r) ==
  /\ r \in open /\ channel[r] # <<>>
  /\ channel' = [channel EXCEPT ![r] = Tail(@)]
  /\ UNCHANGED <<phase, state, token, generated, cancelled, open, prefix, device, draws>>

HangUp(r) ==
  /\ r \in open
  /\ open' = open \ {r}
  /\ UNCHANGED <<phase, state, token, generated, cancelled, channel, prefix, device, draws>>

Cancel(r) ==
  /\ ~cancelled[r]
  /\ cancelled' = [cancelled EXCEPT ![r] = TRUE]
  /\ UNCHANGED <<phase, state, token, generated, channel, open, prefix, device, draws>>

Next ==
  \E r \in Requests :
    \/ InitGeneration(r) \/ StopGeneration(r) \/ TokenToPiece(r) \/ Emit(r)
    \/ Receive(r) \/ HangUp(r) \/ Cancel(r)
    \/ \E t \in Tokens \cup {Eog} : StepGeneration(r, t)

Spec == Init /\ [][Next]_vars
---------------------------------------------------------------------------
(* Every token is sampled from a hidden vector that was computed from the  *)
(* request's own tokens: the rows an Empty marker stands for are the rows  *)
(* of this request, and the resident hidden vector is its own.             *)
SampledFromOwnContext == \A d \in draws : d.from = d.history
=============================================================================
