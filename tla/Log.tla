-------------------------------- MODULE Log ---------------------------------
(***************************************************************************)
(* The log of log/log.h over the queue that the mpsc ring implements       *)
(* (MpscQueue; Mpsc shows that it does).  A record is a header and a       *)
(* payload in one reservation; the flusher takes them out with two reads,  *)
(* formats them into flush_buf and hands that to f_flush.  In the          *)
(* asynchronous mode f_flush only starts a transfer out of flush_buf, and  *)
(* busy keeps the flusher away until the transfer's end has cleared it.    *)
(***************************************************************************)
EXTENDS Integers, Sequences

CONSTANTS
  Producers,
  Cap,         \* cfg.cap
  Header,      \* sizeof(log_entry_t)
  Payloads,    \* the sizes of the payloads
  Modes,       \* the values of cfg.e_mode
  MaxRecords   \* bound of the model: records accepted in a behaviour

ASSUME LogAssumption ==
  /\ Cap \in Nat /\ Header \in Nat \ {0} /\ MaxRecords \in Nat
  /\ Payloads \subseteq Nat \ {0}
  /\ Modes \subseteq {"SYNC", "ASYNC"}

VARIABLES
  q, out,      \* the queue, see MpscQueue
  mode,
  busy,
  pc, size,    \* per producer: where its call is, the payload it logs
  fpc,         \* where the flusher is
  entry,       \* its copy of the header
  flush_buf,   \* [entry, text]: the record formatted last
  transfer,    \* f_flush has started a transfer out of flush_buf
  sink,        \* the records that arrived, in order
  accepted,    \* auxiliary: how many records were accepted
  waiting      \* auxiliary: the records accepted that have not arrived, in order

ring    == <<q, out>>
writers == <<pc, size>>
flusher == <<mode, busy, fpc, entry, flush_buf, transfer, sink>>
history == <<accepted, waiting>>
vars    == <<ring, writers, flusher, history>>

Sizes == {Header + n : n \in Payloads}
Ring  == INSTANCE MpscQueue

NoEntry  == [id |-> 0, size |-> 0]
NoRecord == [entry |-> NoEntry, text |-> <<>>]

Init ==
  /\ Ring!Init
  /\ mode \in Modes /\ busy = FALSE
  /\ pc = [p \in Producers |-> "idle"] /\ size = [p \in Producers |-> 0]
  /\ fpc = "idle" /\ entry = NoEntry /\ flush_buf = NoRecord
  /\ transfer = FALSE /\ sink = <<>>
  /\ accepted = 0 /\ waiting = <<>>

Goto(p, from, to) == pc[p] = from /\ pc' = [pc EXCEPT ![p] = to]

-----------------------------------------------------------------------------
(* log_write and log_write_bin past their first check; calls under e_level *)
(* and records above cap return without effect.                            *)
WriteCall(p, n) ==
  /\ Goto(p, "idle", "acquire")
  /\ Header + n <= Cap /\ accepted < MaxRecords
  /\ size' = [size EXCEPT ![p] = n]
  /\ UNCHANGED <<ring, flusher, history>>

(* mpsc_acquire found room ...                                             *)
Acquire(p) ==
  /\ Goto(p, "acquire", "fill")
  /\ accepted < MaxRecords /\ accepted' = accepted + 1
  /\ Ring!Reserve(p, Header + size[p])
  /\ waiting' = Append(waiting, [id |-> p, size |-> size[p], done |-> FALSE])
  /\ UNCHANGED <<size, flusher>>

(* ... or not: the record is dropped.                                      *)
Drop(p) ==
  /\ Goto(p, "acquire", "idle")
  /\ size' = [size EXCEPT ![p] = 0]
  /\ UNCHANGED <<ring, flusher, history>>

(* Header and payload are copied, mpsc_push shows them.                    *)
Push(p) ==
  /\ Goto(p, "fill", "idle")
  /\ Ring!Commit(p, Header + size[p])
  /\ size' = [size EXCEPT ![p] = 0]
  /\ waiting' = [i \in DOMAIN waiting |->
                   IF waiting[i].id = p THEN [waiting[i] EXCEPT !.done = TRUE] ELSE waiting[i]]
  /\ UNCHANGED <<flusher, accepted>>

-----------------------------------------------------------------------------
(* log_flush and log_flush_bin: around the loop until busy or empty.       *)
FlushCall ==
  /\ fpc = "idle"
  /\ fpc' = "loop"
  /\ UNCHANGED <<ring, writers, mode, busy, entry, flush_buf, transfer, sink, history>>

LoopBusy ==
  /\ fpc = "loop" /\ busy
  /\ fpc' = "idle"
  /\ UNCHANGED <<ring, writers, mode, busy, entry, flush_buf, transfer, sink, history>>

Readable(n) == Len(q) >= n /\ \A k \in 1..n : Len(q[k]) = 3

(* mpsc_read came back empty.  While a producer is inside mpsc_acquire its *)
(* mark may hide committed bytes.                                          *)
LoopEmpty ==
  /\ fpc = "loop" /\ ~busy
  /\ ~Readable(Header) \/ \E p \in Producers : pc[p] # "idle"
  /\ fpc' = "idle"
  /\ UNCHANGED <<ring, writers, mode, busy, entry, flush_buf, transfer, sink, history>>

(* A mistake: busy is not looked at.                                       *)
ReadHeaderUnasked ==
  /\ fpc = "loop"
  /\ Readable(Header) /\ Ring!Peek(Header)
  /\ entry' = [id |-> q[1][1], size |-> q[1][3] - Header]
  /\ fpc' = "header"
  /\ UNCHANGED <<writers, mode, busy, flush_buf, transfer, sink, history>>

ReadHeader ==
  /\ fpc = "loop" /\ ~busy
  /\ Readable(Header) /\ Ring!Peek(Header)
  /\ entry' = [id |-> q[1][1], size |-> q[1][3] - Header]
  /\ fpc' = "header"
  /\ UNCHANGED <<writers, mode, busy, flush_buf, transfer, sink, history>>

(* A mistake: the header is copied and not given back.                     *)
ReleaseHeaderKept ==
  /\ fpc = "header"
  /\ out' = <<>> /\ fpc' = "payload"
  /\ UNCHANGED <<q, writers, mode, busy, entry, flush_buf, transfer, sink, history>>

ReleaseHeader ==
  /\ fpc = "header"
  /\ Ring!Drop
  /\ fpc' = "payload"
  /\ UNCHANGED <<writers, mode, busy, entry, flush_buf, transfer, sink, history>>

(* A mistake: the size of the payload is taken for that of the record.     *)
ReadPayloadTwice ==
  /\ fpc = "payload"
  /\ Ring!Peek(IF Readable(entry.size + Header) THEN entry.size + Header ELSE entry.size)
  /\ flush_buf' = [entry |-> entry, text |-> out']
  /\ fpc' = "release"
  /\ UNCHANGED <<writers, mode, busy, entry, transfer, sink, history>>

(* The read of the payload does not come back short: RestIsReadable of     *)
(* Mpsc.  It goes behind the formatted id.                                 *)
ReadPayload ==
  /\ fpc = "payload"
  /\ Readable(entry.size) /\ Ring!Peek(entry.size)
  /\ flush_buf' = [entry |-> entry, text |-> out']
  /\ fpc' = "release"
  /\ UNCHANGED <<writers, mode, busy, entry, transfer, sink, history>>

ReleasePayload ==
  /\ fpc = "release"
  /\ Ring!Drop
  /\ fpc' = "flush"
  /\ UNCHANGED <<writers, mode, busy, entry, flush_buf, transfer, sink, history>>

(* f_flush: prints, or starts the transfer.                                *)
Flush ==
  /\ fpc = "flush"
  /\ IF mode = "SYNC"
       THEN sink' = Append(sink, flush_buf) /\ waiting' = Tail(waiting) /\ UNCHANGED transfer
       ELSE transfer' = TRUE /\ UNCHANGED <<sink, waiting>>
  /\ fpc' = "busy"
  /\ UNCHANGED <<ring, writers, mode, busy, entry, flush_buf, accepted>>

(* A mistake: busy is set in both modes.                                   *)
SetBusyAlways ==
  /\ fpc = "busy"
  /\ busy' = TRUE
  /\ fpc' = "loop" /\ entry' = NoEntry
  /\ UNCHANGED <<ring, writers, mode, flush_buf, transfer, sink, history>>

SetBusy ==
  /\ fpc = "busy"
  /\ busy' = (mode = "ASYNC")
  /\ fpc' = "loop" /\ entry' = NoEntry
  /\ UNCHANGED <<ring, writers, mode, flush_buf, transfer, sink, history>>

(* External: the end of the transfer.  What arrives is what flush_buf      *)
(* holds by then.  The application clears busy, and has to do so after     *)
(* log_flush has set it.                                                   *)
TransferDone ==
  /\ transfer /\ busy
  /\ sink' = Append(sink, flush_buf) /\ waiting' = Tail(waiting)
  /\ transfer' = FALSE /\ busy' = FALSE
  /\ UNCHANGED <<ring, writers, mode, fpc, entry, flush_buf, accepted>>

-----------------------------------------------------------------------------
WriterStep(p) == Acquire(p) \/ Drop(p) \/ Push(p)

FlushStep ==
  \/ FlushCall \/ LoopBusy \/ LoopEmpty \/ ReadHeader \/ ReleaseHeader
  \/ ReadPayload \/ ReleasePayload \/ Flush \/ SetBusy

Next ==
  \/ \E p \in Producers : WriterStep(p) \/ \E n \in Payloads : WriteCall(p, n)
  \/ FlushStep
  \/ TransferDone

Spec == Init /\ [][Next]_vars

(* A writer's call goes on, log_flush is called again and again            *)
(* (test/log_test.c:29), and a transfer ends.                              *)
Fairness ==
  /\ \A p \in Producers : WF_vars(WriterStep(p))
  /\ WF_vars(FlushStep) /\ WF_vars(TransferDone)

FairSpec == Spec /\ Fairness

-----------------------------------------------------------------------------
(* While a transfer runs, flush_buf is not touched, and it is the only one.*)
TransferIsUndisturbed ==
  [][transfer => flush_buf' = flush_buf /\ (transfer' => fpc' # "flush")]_vars

(* The flusher reads the payload that follows the header it holds.         *)
HeaderBelongsToPayload ==
  fpc = "payload" =>
    /\ Readable(entry.size)
    /\ \A k \in 1..entry.size : q[k] = <<entry.id, Header + k, Header + entry.size>>

(* Once the writers pause, every accepted record arrives, in both modes.   *)
(* While calls keep coming, each may hide the committed bytes from the     *)
(* flusher that looks just then.                                           *)
NoNewWrites == [][\A p \in Producers : pc[p] = "idle" => pc'[p] = "idle"]_vars

EveryRecordArrives ==
  <>NoNewWrites => \A k \in 1..MaxRecords : accepted >= k ~> Len(sink) >= k
=============================================================================
