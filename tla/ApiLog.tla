-------------------------------- MODULE ApiLog --------------------------------
(***************************************************************************)
(* The access log of the API:                                              *)
(*   web/controller/api/logging.go  AccessLogMiddleware                    *)
(*   web/service/apilog.go          the buffer, its batches, Purge         *)
(* What ApiAccess does with a call, whatever its status, ends here.        *)
(***************************************************************************)
EXTENDS Naturals, FiniteSets, Sequences

CONSTANTS
    Entry,          \* a finished call: its method, path, status, token
    LogThreshold, LogCap, \* 200 and 5000 in the code
    Chunk           \* rows that Purge deletes at once: 1000 in the code

VARIABLES
    ended,          \* the calls that have ended
    queue,          \* logBuf.queue
    writing,        \* its batches on their way to the table
    ticking,        \* the one of the ticker, if any
    log,            \* api_logs
    aged,           \* its rows older than 14 days
    plucked,        \* the ids Purge is about to delete
    gone            \* history: entries purged, or lost with a write or the process

LogConstants ==
    LogThreshold \in Nat \ {0} /\ LogCap \in Nat /\ LogThreshold <= LogCap /\ Chunk \in Nat \ {0}

logVars == <<ended, queue, writing, ticking, log, aged, plucked, gone>>

Elements(s) == {s[k] : k \in DOMAIN s}
IsBatch(s) == s \in Seq(Entry) /\ Len(s) <= LogThreshold

TypeOK ==
    /\ ended \subseteq Entry
    /\ \A s \in writing \cup {queue, ticking} : IsBatch(s)
    /\ log \subseteq Entry /\ aged \subseteq log /\ plucked \subseteq Entry /\ gone \subseteq Entry

Init ==
    /\ ended = {} /\ queue = <<>> /\ writing = {} /\ ticking = <<>>
    /\ log = {} /\ aged = {} /\ plucked = {} /\ gone = {}

\* Mutant: the batch stays in the buffer.
KeepsBatch(q, c) ==
    IF Len(q) + 1 >= LogThreshold THEN [queue |-> Append(q, c), batch |-> Append(q, c)]
    ELSE [queue |-> Append(q, c), batch |-> <<>>]

\* logBuffer.add: drop the oldest at the cap, swap the buffer at the threshold.
Added(q, c) ==
    LET longer == Append(IF Len(q) >= LogCap THEN Tail(q) ELSE q, c)
    IN  IF Len(longer) >= LogThreshold THEN [queue |-> <<>>, batch |-> longer]
        ELSE [queue |-> longer, batch |-> <<>>]

\* Every call ends here, whatever its status.
Record(c) ==
    LET a == Added(queue, c) IN
    /\ c \notin ended /\ ended' = ended \cup {c}
    /\ queue' = a.queue
    /\ writing' = writing \cup ({a.batch} \ {<<>>})
    /\ UNCHANGED <<ticking, log, aged, plucked, gone>>

\* The ticker of startFlusher, which writes its batch itself.
FlushLog ==
    /\ ticking = <<>> /\ queue # <<>>
    /\ ticking' = queue /\ queue' = <<>>
    /\ UNCHANGED <<ended, writing, log, aged, plucked, gone>>

\* One INSERT; an error is swallowed.
Insert(b) ==
    /\ \/ log' = log \cup Elements(b) /\ UNCHANGED gone
       \/ gone' = gone \cup Elements(b) /\ UNCHANGED log
    /\ UNCHANGED <<ended, queue, aged, plucked>>

WriteBatch ==
    \/ \E b \in writing : Insert(b) /\ writing' = writing \ {b} /\ UNCHANGED ticking
    \/ ticking # <<>> /\ Insert(ticking) /\ ticking' = <<>> /\ UNCHANGED writing

Age ==
    /\ \E c \in log \ aged : aged' = aged \cup {c}
    /\ UNCHANGED <<ended, queue, writing, ticking, log, plucked, gone>>

\* DELETE /access-logs: a chunk is read, then deleted, until there is none.
\* (Two at once would delete the same rows.)
Pluck ==
    /\ plucked = {}
    /\ \E chunk \in SUBSET aged :
           /\ chunk # {} /\ (Cardinality(chunk) = Chunk \/ chunk = aged)
           /\ Cardinality(chunk) <= Chunk
           /\ plucked' = chunk
    /\ UNCHANGED <<ended, queue, writing, ticking, log, aged, gone>>

Purge ==
    /\ plucked # {}
    /\ log' = log \ plucked /\ aged' = aged \ plucked
    /\ gone' = gone \cup plucked
    /\ plucked' = {}
    /\ UNCHANGED <<ended, queue, writing, ticking>>

-----------------------------------------------------------------------------
InMemory == Elements(queue) \cup Elements(ticking) \cup UNION {Elements(b) : b \in writing}

\* The process ends; a reload changes nothing here.
Restarted ==
    /\ gone' = gone \cup InMemory
    /\ queue' = <<>> /\ writing' = {} /\ ticking' = <<>> /\ plucked' = {}
    /\ UNCHANGED <<ended, log, aged>>

Background == FlushLog \/ WriteBatch \/ Age \/ Pluck \/ Purge

-----------------------------------------------------------------------------

LogNext == (\E c \in Entry : Record(c)) \/ Background \/ Restarted
LogSpec == Init /\ [][LogNext]_logVars

Audit == INSTANCE AuditLog WITH pending <- InMemory, logged <- log

\* apilog.go:38-42, 67-112: a call that has ended is in the buffer or in one
\* batch, then in the table, whichever of the ticker and the threshold takes the
\* buffer; it is never logged again after a purge or a failed insert.
AuditedOnce == Audit!Spec
=============================================================================
