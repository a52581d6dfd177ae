------------------------------ MODULE TraceWorker ------------------------------
(***************************************************************************)
(* The stream half of the guardrails service: GuardrailsWorker.run         *)
(* (guardrails/worker.py) reads traces from a Redis stream through a       *)
(* consumer group, publishes a result, upserts guardrail_results and       *)
(* acknowledges; what it cannot process goes to a dead-letter stream.      *)
(* Replicas share the group.  The producers are external: nothing in the   *)
(* repository succeeds in publishing a trace (collector's ingest awaits a  *)
(* function that is not a coroutine).                                      *)
(*                                                                         *)
(* A verdict is whether the trace is toxic; evaluating a trace awaits      *)
(* nothing and may find anything.  A Redis call that fails may have taken  *)
(* effect.  Faults are counted so that a run has at most MaxFaults.        *)
(***************************************************************************)
EXTENDS Absence, Naturals, Sequences

CONSTANTS
  Workers,
  Traces,      \* trace ids; a trace may be sent twice
  Count,       \* entries read at once, 10 in the code
  MaxEntries,  \* bound: entries the producers add
  MaxFaults    \* bound: calls that fail and processes that are killed

ASSUME CountAssumption == Count \in Nat \ {0}
ASSUME BoundsAssumption == MaxEntries \in Nat /\ MaxFaults \in Nat

(* an entry that evaluates, one that lacks a field of a trace, and one       *)
(* without "trace"                                                          *)
Bodies == {"trace", "partial", "none"}

VARIABLES
  (* Redis *)
  stream,         \* TRACE_STREAM
  last_delivered, \* of guardrails_group
  pending,        \* its entries delivered and not acknowledged
  results,        \* RESULT_STREAM
  dead_letters,   \* dead_letter_stream, the entries in order
  (* guardrail_results *)
  trace_row,      \* the verdict per trace and the entry it came from, or None
  stored,         \* entries whose verdict was written
  (* the workers *)
  step,           \* "down", "read", "publish", "store", "ack", "dlq", "dlq_ack"
  batch,          \* entries of the last read still to be handled, the current first
  verdict,        \* of the current entry
  faults

redis == <<stream, last_delivered, pending, results, dead_letters>>
database == <<trace_row, stored>>
workers == <<step, batch, verdict>>
worker_vars == <<redis, database, workers, faults>>

Entries == 1..Len(stream)
Current(w) == Head(batch[w])
Held == UNION {{batch[w][i] : i \in DOMAIN batch[w]} : w \in Workers}

WorkerInit ==
  /\ stream = <<>> /\ last_delivered = 0 /\ pending = {}
  /\ results = <<>> /\ dead_letters = <<>>
  /\ trace_row = [t \in Traces |-> None] /\ stored = {}
  /\ step = [w \in Workers |-> "read"]
  /\ batch = [w \in Workers |-> <<>>]
  /\ verdict = [w \in Workers |-> None]
  /\ faults = 0

Produce ==
  /\ Len(stream) < MaxEntries
  /\ \E t \in Traces, b \in Bodies : stream' = Append(stream, [trace |-> t, body |-> b])
  /\ UNCHANGED <<last_delivered, pending, results, dead_letters, database, workers, faults>>

Goto(w, label) == step' = [step EXCEPT ![w] = label] /\ UNCHANGED batch

(* on to the next entry of the batch, or to the next read *)
NextEntry(w) ==
  /\ batch' = [batch EXCEPT ![w] = Tail(@)]
  /\ step' = [step EXCEPT ![w] = IF Len(batch[w]) = 1 THEN "read" ELSE "publish"]

(* an exception leaves run(), asyncio.gather and the process, or it is killed; *)
(* what it held stays pending                                                  *)
Down(w) ==
  /\ step' = [step EXCEPT ![w] = "down"]
  /\ batch' = [batch EXCEPT ![w] = <<>>]
  /\ verdict' = [verdict EXCEPT ![w] = None]

Fault == faults < MaxFaults /\ faults' = faults + 1

(* xreadgroup with ">": the next entries nobody was given *)
Read(w) ==
  /\ step[w] = "read"
  /\ last_delivered < Len(stream)
  /\ LET n == IF Len(stream) - last_delivered < Count THEN Len(stream) - last_delivered ELSE Count
     IN  /\ batch' = [batch EXCEPT ![w] = [i \in 1..n |-> last_delivered + i]]
         /\ pending' = pending \cup (last_delivered + 1)..(last_delivered + n)
         /\ last_delivered' = last_delivered + n
  /\ step' = [step EXCEPT ![w] = "publish"]
  /\ UNCHANGED <<stream, results, dead_letters, database, verdict, faults>>

ReadFails(w) ==
  /\ step[w] = "read"
  /\ Fault /\ Down(w)
  /\ UNCHANGED <<redis, database>>

ResultOf(w, toxic) == [entry |-> Current(w), toxic |-> toxic]

(* evaluate, then xadd of the result *)
Publish(w) ==
  /\ step[w] = "publish" /\ stream[Current(w)].body = "trace"
  /\ \E toxic \in BOOLEAN :
       /\ verdict' = [verdict EXCEPT ![w] = toxic]
       /\ \/ /\ results' = Append(results, ResultOf(w, toxic))
             /\ Goto(w, "store") /\ UNCHANGED faults
          \/ /\ results' \in {results, Append(results, ResultOf(w, toxic))}
             /\ Goto(w, "dlq") /\ Fault
  /\ UNCHANGED <<stream, last_delivered, pending, dead_letters, database>>

(* a missing field is an exception like any other *)
EvaluateFails(w) ==
  /\ step[w] = "publish" /\ stream[Current(w)].body = "partial"
  /\ Goto(w, "dlq")
  /\ UNCHANGED <<redis, database, verdict, faults>>

(* mutant: the entry is tried again until it has one *)
HandlerTriesAgain(w) ==
  /\ step[w] = "publish" /\ stream[Current(w)].body = "none"
  /\ Goto(w, "publish")
  /\ UNCHANGED <<redis, database, verdict, faults>>

(* without "trace" the handler fails on the same KeyError *)
HandlerFails(w) ==
  /\ step[w] = "publish" /\ stream[Current(w)].body = "none"
  /\ Down(w)
  /\ UNCHANGED <<redis, database, faults>>

(* mutant: the worker decides again before it writes *)
StoreEvaluatesAgain(w) ==
  /\ step[w] = "store"
  /\ \E toxic \in BOOLEAN : trace_row' = [trace_row EXCEPT ![stream[Current(w)].trace] = ResultOf(w, toxic)]
  /\ stored' = stored \cup {Current(w)} /\ Goto(w, "ack") /\ UNCHANGED faults
  /\ UNCHANGED <<redis, verdict>>

(* mutant: a row that cannot be written is skipped *)
StoreOrSkip(w) ==
  /\ step[w] = "store"
  /\ \/ /\ trace_row' = [trace_row EXCEPT ![stream[Current(w)].trace] = ResultOf(w, verdict[w])]
        /\ stored' = stored \cup {Current(w)}
        /\ Goto(w, "ack") /\ UNCHANGED faults
     \/ Goto(w, "ack") /\ Fault /\ UNCHANGED database
  /\ UNCHANGED <<redis, verdict>>

(* store_in_db *)
Store(w) ==
  /\ step[w] = "store"
  /\ \/ /\ trace_row' = [trace_row EXCEPT ![stream[Current(w)].trace] = ResultOf(w, verdict[w])]
        /\ stored' = stored \cup {Current(w)}
        /\ Goto(w, "ack") /\ UNCHANGED faults
     \/ Goto(w, "dlq") /\ Fault /\ UNCHANGED database
  /\ UNCHANGED <<redis, verdict>>

Ack(w) ==
  /\ step[w] = "ack"
  /\ \/ pending' = pending \ {Current(w)} /\ NextEntry(w) /\ UNCHANGED faults
     \/ pending' \in {pending, pending \ {Current(w)}} /\ Goto(w, "dlq") /\ Fault
  /\ UNCHANGED <<stream, last_delivered, results, dead_letters, database, verdict>>

DeadLetter(w) ==
  /\ step[w] = "dlq"
  /\ \/ dead_letters' = Append(dead_letters, Current(w)) /\ Goto(w, "dlq_ack")
        /\ UNCHANGED <<verdict, faults>>
     \/ dead_letters' \in {dead_letters, Append(dead_letters, Current(w))} /\ Down(w) /\ Fault
  /\ UNCHANGED <<stream, last_delivered, pending, results, database>>

AckDead(w) ==
  /\ step[w] = "dlq_ack"
  /\ \/ pending' = pending \ {Current(w)} /\ NextEntry(w) /\ UNCHANGED <<verdict, faults>>
     \/ pending' \in {pending, pending \ {Current(w)}} /\ Down(w) /\ Fault
  /\ UNCHANGED <<stream, last_delivered, results, dead_letters, database>>

Kill(w) ==
  /\ step[w] # "down"
  /\ Down(w) /\ Fault
  /\ UNCHANGED <<redis, database>>

(* restart: unless-stopped; the group exists and remembers *)
Restart(w) ==
  /\ step[w] = "down"
  /\ Goto(w, "read")
  /\ UNCHANGED <<redis, database, verdict, faults>>

Work(w) ==
  \/ Read(w) \/ Publish(w) \/ EvaluateFails(w) \/ HandlerFails(w) \/ Store(w) \/ Ack(w)
  \/ DeadLetter(w) \/ AckDead(w) \/ Restart(w)

WorkerNext == Produce \/ \E w \in Workers : Work(w) \/ ReadFails(w) \/ Kill(w)

(* each worker goes on, and is restarted when it ended *)
WorkerSpec == WorkerInit /\ [][WorkerNext]_worker_vars /\ \A w \in Workers : WF_worker_vars(Work(w))

-----------------------------------------------------------------------------
Verdict == [entry : 1..MaxEntries, toxic : BOOLEAN]

WorkerTypeOK ==
  /\ stream \in Seq([trace : Traces, body : Bodies]) /\ Len(stream) <= MaxEntries
  /\ last_delivered \in 0..Len(stream)
  /\ pending \subseteq 1..last_delivered
  /\ results \in Seq(Verdict)
  /\ dead_letters \in Seq(1..last_delivered)
  /\ trace_row \in [Traces -> Verdict \cup {None}]
  /\ stored \subseteq 1..last_delivered
  /\ step \in [Workers -> {"down", "read", "publish", "store", "ack", "dlq", "dlq_ack"}]
  /\ batch \in [Workers -> Seq(1..last_delivered)]
  /\ \A w \in Workers : batch[w] = <<>> <=> step[w] \in {"down", "read"}
  /\ verdict \in [Workers -> BOOLEAN \cup {None}]
  /\ faults \in 0..MaxFaults

InDeadLetters(e) == \E i \in DOMAIN dead_letters : dead_letters[i] = e

(***************************************************************************)
(* No trace is lost by being acknowledged: what the group no longer holds  *)
(* has its verdict written, or waits in the dead-letter stream, whichever  *)
(* call failed and whether or not it had taken effect.                     *)
(***************************************************************************)
AcknowledgedIsKept ==
  \A e \in 1..last_delivered : e \notin pending => e \in stored \/ InDeadLetters(e)

(***************************************************************************)
(* The state is well formed, a batch only in the hands of a worker at work *)
(* on it, and no trace is lost.                                            *)
(***************************************************************************)
NothingIsLost == WorkerTypeOK /\ AcknowledgedIsKept

(***************************************************************************)
(* An entry is handled by one worker and at most once: one result, one     *)
(* dead letter, and a row only says what a published result said.          *)
(***************************************************************************)
HandledOnce ==
  /\ \A i, j \in DOMAIN results : results[i].entry = results[j].entry => i = j
  /\ \A i, j \in DOMAIN dead_letters : dead_letters[i] = dead_letters[j] => i = j
  /\ \A t \in Traces : trace_row[t] # None => \E i \in DOMAIN results : results[i] = trace_row[t]

(* delivered to a worker that ended before it was done with it *)
Abandoned == pending \ Held

(***************************************************************************)
(* Every trace sent is acknowledged, or was in the hands of a worker that  *)
(* ended: no other worker takes such an entry up (">" only reads what      *)
(* nobody was given), but it holds up nothing either.                      *)
(***************************************************************************)
EveryEntryEnds ==
  \A e \in 1..MaxEntries :
    (e \in Entries) ~> (e <= last_delivered /\ (e \notin pending \/ e \in Abandoned))
================================================================================
