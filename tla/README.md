# Verification of the AI Housing Secretary

TLA+ models of the parts of this system whose correctness depends on the order
in which things happen, the TLC runs that check them on small instances, and
proofs, checked by TLAPS, that the properties that matter most hold for every
value of the constants. Source paths below are relative to the repository's
`src/`.

## 1. The system

Residents and the secretary write WhatsApp messages. A webhook puts each
payload on a BullMQ queue; a worker takes up to `INBOUND_QUEUE_CONCURRENCY`
jobs at a time and lets the orchestrator route every message to a module
(announcements, complaints, escalations, suggestions, FAQ), which uses tools
over PostgreSQL, a vector store and the WhatsApp Cloud API. Scheduled
announcements are jobs on a second queue with a worker of its own. There is no
database transaction anywhere that spans two statements: between any two
`await`s another handler may run, an error may surface, or the process may die.

| Component | State it keeps | Operations | Talks to |
| --- | --- | --- | --- |
| Webhook, inbound queue, inbound worker (`gateway/webhook.ts`, `queue.ts`, `inboundWorker.ts`) | jobs: attempts (3), stalls | enqueue, take, retry, give up | inbound processor |
| Inbound processor (`gateway/inboundProcessor.ts`) | none | events of a payload in sequence; secretary or resident | orchestrator, conversation store |
| Orchestrator (`gateway/orchestrator.ts`) | none | routes a message, replies, records the reply | every module, sessions |
| Sessions (`gateway/session.ts`) | Redis key per phone, with idle timeout | get-or-create, end | orchestrator |
| Conversation store (`memory/conversationStore.ts`) | threads, messages, `last_message_at` | append, recent history | processor, orchestrator, FAQ |
| Residents registry (`tools/residentsTool.ts`, `gateway/adminResidentsRoutes.ts`) | `residents` rows, unique by phone | look up, upsert, remove | processor, orchestrator |
| Announcements (`modules/broadcast.ts`, `tools/broadcastTool.ts`) | `announcements` rows: status, schedule, approver | draft, approve, mark, send | scheduler, WhatsApp tool, audit log |
| Broadcast queue and worker (`gateway/broadcastQueue.ts`, `broadcastWorker.ts`) | one delayed job per announcement | schedule, run | announcements |
| WhatsApp tool (`tools/whatsappTool.ts`) | none across calls | send with retries, fan out, media | WhatsApp Cloud API |
| Complaints (`modules/complaints.ts`, `tools/complaintTool.ts`) | `complaints` rows, unique ticket ids | file, status | WhatsApp tool, audit log |
| Escalations (`modules/escalation.ts`, `tools/escalationTool.ts`, `agent/escalation.ts`) | `escalations` rows: status, notified at | escalate, acknowledge, resolve, list | WhatsApp tool, audit log |
| Guardrails (`agent/guardrails.ts`) | `audit_logs` rows (append only) | block a request, log | escalations |
| Knowledge documents (`modules/documents.ts`, `memory/vectorStore.ts`, `memory/chunking.ts`, `gateway/adminDocumentsRoutes.ts`, `scripts/ingest-knowledge.ts`) | document rows with hash and version, chunks, objects in cloud storage | ingest, upload, delete, query | embeddings, object storage |
| Suggestions, FAQ, admin dashboard | suggestion rows; none | classify and insert; search, gate, answer; forms | tools |

The behaviours that are hard to get right, and hard to test:

- **interleaving**: check-then-act across an `await` (approve twice, ack and
  resolve at once, count-then-insert of ticket numbers, a resident removed
  while his message is handled, ingest beside ingest);
- **retry of what was already done**: a handler that fails late is run again
  from its start, up to three times, then dropped;
- **partial failure**: the fan-out is done and the status is not, the status is
  set and the audit row is not, the row is marked and the job not enqueued;
- **crash**: the process dies with all its handlers, and BullMQ hands the jobs
  out again a bounded number of times;
- **lost answers**: a request that was carried out and looks as if it failed.

`PROJECT.json` lists each of them at its line, under "hazards", with the
properties that watch it.

What makes each component correct: an announcement goes out only if the
secretary said so, not before its time, once unless something failed, and the
audit log and the replies say what happened; a fan-out reports every recipient
once; every complaint gets a number, numbers of a year have no gap or double;
nothing a human must decide is dropped, and its block and its changes of status
are on record; every message of a payload is answered, and a thread holds
messages of the phone's present owner only; the knowledge base holds the chunks
of the current version of each document and of nothing else, and a file in
cloud storage belongs to a document.

## 2. The modules

| Module | Models | Status |
| --- | --- | --- |
| `Jobs` | a BullMQ job: attempts, stalls | done |
| `AnnouncementContract` | what an announcement promises, without handlers, queues or rows | done |
| `Broadcast`, `MCBroadcast` | announcements, both queues, both workers | done |
| `JobsProofs`, `BroadcastProofs` | proofs about them | done |
| `FanoutContract`, `Fanout`, `FanoutProofs` | `broadcastMessage` | done |
| `Tickets`, `MCTickets`, `TicketsProofs` | filing complaints | done |
| `Escalations`, `MCEscalations` | escalating, acknowledging, resolving, by chat and from the dashboard | done |
| `EscalationsProofs` | proofs about them | done |
| `Reading` | what requests and texts are read as: events, intents, guardrails, categories | done |
| `Inbound`, `MCInbound` | webhook, payloads, residents, threads, sessions, the routing of a message | done |
| `InboundProofs` | proofs about it | done |
| `Chunking` | how a text is cut into chunks | done |
| `Documents`, `MCDocuments` | ingesting, uploading and deleting documents | done |
| `DocumentsProofs` | proofs about both | done |
| `SequenceProofs` | facts about naturals and sequences that several proofs use | done |

### How to read a module

An action is one awaited call of the code with all it changes, and the
synchronous code up to the next one; `pc` names the call a handler is about to
make. Where the code branches on what it read, the action reads the same row
again only if the code does. An error before a call's effect is a fault at that
call; an error after it is a fault at the next one, except where the next call
is one whose errors are swallowed or answered, and there is an action for it
(`ReplyUnanswered`, `InsertUnanswered`). `Fault` counts them all against
`MaxFaults`, so a property can say what a fault may cost. Definitions marked
"Mutant of" are plausible mistakes that the specification does not use; each is
there to show that some property would notice the mistake.

**Jobs.** `Retried` is an attempt that threw, `Stalled` one whose process died.
The backoff between attempts is the time until the job is taken.

**Broadcast.** `rows` is the table, `inbound` and `scheduled` the two queues,
`found`, `runAt` and `approver` the local variables of the handlers,
`begun`, `sent`, `audits` and `replied` what happened outside. `SecretarySends`
is an arriving message, a draft or an approval; `InsertDraft`,
`GetAnnouncement`, `Recheck`, `MarkApproved`, `ScheduleBroadcast` are the calls
of `draftAnnouncement` and `approveAnnouncement`; `BeginFanout`,
`FinishFanout`, `Finalize`, `LogSent` are `sendAndFinalize` and `logSent`, run
by a handler or by the worker; `LookupFails`, `RefuseToSend` are their thrown
errors. An approval looks the announcement up by prefix two times more after the
first, as the code does; `Prefixes` are the sets of ids a typed ref may match.
The clock, `now`, is compared with `scheduled_at` once, in `AfterGet`. The two
workers are processes of their own (`pnpm worker`, `pnpm
broadcast-worker`), so `InboundCrash` and `WorkerCrash` are separate actions.
An error of `getOrCreateSession`, which comes before the orchestrator's `try`,
ends the attempt where a later one is answered with an apology: `CommandThrows`
covers it at a handler's first call. `overlaps` is a history variable that no
process reads: it counts, for each announcement, the handlers that found the row
still pending while another that had found it so was yet to write it.
`RepliesTruthful` says what a success reply implies; the apology of a handler
that failed after it had sent says nothing either way, and is not constrained.

**Fanout.** A lane takes the next recipient, posts the parts due to him one
after the other, sleeps and retries what is retryable, and reports. The API may
deliver and answer, refuse, ask to wait, or deliver and lose its answer.

**Tickets.** `DrawTicket` is `nextTicketId`, `InsertTicket` and
`InsertCollides` the insert under the unique constraint. The notice to the
secretary swallows its errors and nothing depends on it, so it is part of the
step that audits. The lookup of the resident's flat is a read of data no
property mentions.

**Escalations.** A resident's message is a forbidden request (`LogBlock` comes
first) or another trigger, among them the unknown answer of the FAQ and a
resident's attempt to broadcast: from `escalate` on the code is the same. The
secretary's number (`WHATSAPP_SECRETARY_NUMBER`, optional) is taken to be
configured; without it `Notify` and `StampNotified` do not happen and nobody is
promised a notification. The secretary's `ack` and `resolve`
share `FindEscalation`, `UpdateStatus` and `LogChange` with the dashboard's
request (`PostStatus`), which runs in the gateway, is not retried, and dies with
the gateway (`GatewayCrash`) and not with the worker (`WorkerCrash`). A change
by the dashboard is audited without an actor: the route passes none.

**Reading** holds functions only. A text is the set of patterns it matches, plus
the token it begins with, because `categorizeEscalation` reads the first word of
a reason and a reason may be the resident's own text: "unknown_answer: ..." in a
message that asks for a human files it as an unanswered question. The lists are
sequences in the order the code tries them. The keyword patterns for legal and
abuse reasons are never decisive in the code: every text they match is a
trigger, and escalated with that trigger's token in front. A first word that is
the name of a property every JavaScript object has, such as "constructor", is in
`TOKEN_CATEGORY_MAP` for the code's `in` (`modules/escalation.ts:102`) and would
give no category at all; the model's table has its own tokens only.

**Inbound** composes the webhook, the queue, the processor, the registry, the
conversation store, the session store and the orchestrator. A payload may be
enqueued more than once (`EnqueueUnanswered`), each time as a job of its own,
and nothing in the code recognises an event it has handled. `pc` names the next
call of a job's handler and `local` its variables: the event at hand, the
resident found, the conversation to insert into, the session read.
`GetOrCreateConversation`, `InsertMessage`, `BumpLastMessageAt` are the three
statements of `appendMessage`, for the message and again for its answer ("out").
`ForeignKeyFails` is each statement that references a resident or a conversation
that is gone. The registry's `RegisterResident` and `RemoveResident` are the
admin's, with the cascade of conversations and messages and the restriction by
complaints. Filing is `createComplaint` statement by statement
(`FindComplainant`, `DrawTicket`, `FileComplaint`, `TicketCollides`), because the
unique ticket makes one payload's attempt fail for what another did; the audit
and the notice that follow are in `Tickets`. What Broadcast and Escalations model
in detail (the secretary's commands, escalating) is one step here. Two things the
module shows that no property states, because nothing depends on them: a session
may outlive the resident it was created for (the orchestrator uses the resident
of the lookup, never the session's), and the history passed to Gemini as "prior
turns" (`agent/gemini.ts:24`) ends with the question itself, which was appended
before.

**Chunking** translates `chunkText` over sequences of character kinds: a word
character, a space, a newline, a mark. `SplitSentences` walks the text as the
regular expression's global search does, including where it skips. `PackUnits`
is a recursive function over units; `NextStart` is the walk back for the
overlap. The comment at `memory/chunking.ts:166` gives a single oversized unit as
the only case without overlap; any chunk whose last units reach the overlap only
at its first one is another, which `NextStart` shows.

**Documents.** A request is a run of the script, an upload, or a deletion, and
`local` holds what it read. A run has a file at least (without one the script
does nothing). `rows`, `chunks` and `objects` are the table, the
vector store and cloud storage. Both vector stores are modelled: PostgreSQL puts
chunk by chunk under a foreign key and cascades, Chroma puts them in one call
and knows of no rows (a comment in `db/schema.ts` says `knowledge_chunks` is
written under Chroma too; it is not). `unclean` are the documents that a failure
between two writes, or an overlap of two requests, may have spoilt, until a
request that has the document to itself ingests a changed content or deletes
it: the one excuse `ChunksMatchRows` allows, which covers every overlap of two
ingests, or of an ingest and a deletion, and every failed ingest, so the property
speaks of the requests that were neither. `ObjectsAccountedFor` likewise excuses
the objects of an upload or a deletion that failed or died. An ingest of the same content is no
cure, because the hash was stored before the embeddings were asked for; so an
ingest that failed is not repaired by running the script again, although
`docs/memory-layer.md:141` says "safe to re-run".

## 3. What the runs check

| Run | Instance | What it shows |
| --- | --- | --- |
| `broadcast_concurrent` | 1 announcement, 3 messages, 2 handlers, 2 attempts, 2 faults, 2 instants | whatever interleaves and fails: nothing unapproved goes out, `broadcast` means sent, audit rows and replies claim only what happened, every fan-out after the first and every missing audit row is the price of a fault or of an overlap, approval is final, and `AnnouncementContract` is implemented |
| `broadcast_serial` | the same, 1 handler, 1 fault, with fairness | every message ends; what is approved is sent, unless there was a fault |
| `status_regresses` | 2 handlers, no fault | *violation*: a sent announcement goes back to approved |
| `retried_approval_stranded` | 1 handler, 1 fault | *violation*: a crash between marking and enqueuing strands the announcement |
| `broadcast_unaudited` | 1 handler, 1 fault | *violation*: a send without its audit row, for good |
| `fanout` | 3 recipients, 2 parts, 2 lanes, 1 retry, with fairness | everybody is reported once, parts come in order, repeats are lost answers, the call returns, `FanoutContract` is implemented |
| `tickets` | 3 complaints, 2 handlers, 3 attempts, a New Year, 1 fault | the race costs retries, never a number or a complaint; duplicates and missing audits cost faults |
| `escalations` | 3 messages or dashboard requests, 2 handlers, 2 attempts, 1 fault, refs that match two rows | one escalation per message plus one per fault, nothing unheard or unrecorded without a fault, blocks and changes on record, replies truthful, done means heard |
| `escalation_reopened` | 3 messages, 1 handler, no fault | *violation*: an ack after a resolve reopens |
| `inbound` | 2 payloads of up to 2 events, 2 deliveries each, 2 handlers, 2 attempts, 1 fault, 1 phone registered twice | threads stay with the phone's owner; attempts fail only for faults, removals and tickets that others filed; repeats cost deliveries and failed attempts; a completed payload is answered in full; what a guardrail matches goes to a human |
| `documents` | 3 requests that overlap in five ways, 1 fault, both vector stores; uploads of every text of up to 5 characters | what is left of a document is of one piece; uploaded files are accounted for; chunks are bounded, go on, and hold every paragraph that fits |
| `text_dropped` | uploads of every text of up to 5 characters | *violation*: part of a long paragraph is in no chunk |

The five violations are disagreements between the code and its own comments
and docs; `PROJECT.json` quotes each under "findings".

**Bounds, and why they are enough.** Handlers share state only through rows,
queues and audit counts of one announcement, ticket sequence or escalation
table, one phone's thread, or one document. Three messages are a draft and two
rival approvals, three complaints of which one loses the race twice, or an
escalation with two rival changes. Two
faults are an error and then a crash of the recovery. Two instants are before
and at the scheduled time. Two attempts are a first and a last one; `tickets`
keeps the code's three because its last property compares attempts with rivals.
More announcements only multiply independent rows, except through ambiguous
refs, which the proofs below cover. `MaxStalls` is BullMQ's default of 1.

`inbound` starts from six pairs of payloads, chosen so that every branch of
the orchestrator and every kind of request that leaves no event occur, and two
complaints may be filed at once; one
phone is registered, removed and registered again (`MaxResidents` counts the
registrations, and the last resident is not removed, since nobody would follow
him). Gemini answers a category or prose; scores lie below and above the
threshold. A session may be found expired whenever it is read, which covers
every idle timeout. `documents` gives three requests to one source at most (two
that overlap and one that comes after, or in between), one fault, and limits of
4 characters and 1 of overlap, small enough for texts of five characters to be
split every way there is, and for the longer one in the plans to yield three
chunks, of which the last two share a paragraph; `ChunksOfText` is about every
limit and every overlap. Its texts have no white space at their ends, which
trimming would remove.

**Symmetry** is used in runs of safety and action properties only: for messages,
and in `inbound` for payloads, of which every pair starts either way round.

**Fairness.** `broadcast_serial` assumes that time passes and that each handler
and the worker go on when they can: BullMQ keeps taking jobs and Node.js
resumes a promise that is settled. Nobody has to write a message, and no fault
has to happen. `fanout` assumes that a lane in flight goes on: a request is
answered or times out, a sleep ends.

## 4. What is proved

Every safety invariant and action property that a passing run checks is a
theorem, and so are both refinements. The theorems hold for every value of the
constants that satisfies the named assumptions (`JobsAssumption`,
`ConstantsAssumption`, `FanoutAssumption`, `TicketsAssumption`,
`EscalationsAssumption`, `InboundAssumption`, `ChunkingAssumption`,
`DocumentsAssumption`): any number of announcements,
messages, payloads, phones, requests, recipients and faults, any concurrency, at
least one attempt, any texts, any sets of rows that a ref may match. TLC checked
each invariant before it was proved.

- **Lemmas.** `JobsProofs`: what each operator on jobs does to a `BoundedJob`.
  `SequenceProofs`: what concatenation and flattening return, that finite sets of
  integers have extremes, and induction over a given set of numbers
  (`LeastElement`, `Upwards`, `Downwards`), which is what the induction over natural
  numbers in these proofs rests on.
- **Broadcast, types** (`TypeCorrect`). `TypeOK` alone is not inductive:
  `attempts` stays within its bound only because a job is retried while active,
  that is while its handler is not idle. `TypeInv` adds that a handler that is
  not idle has an active job with an attempt left, and that the row a handler is
  about to change is one it found.
- **Broadcast, safety** (`OnlyApprovedGoesOut`, `JobsBelongToApproved`,
  `BroadcastRowsWereSent`). `SafetyInv` says that a handler past its lookup holds
  a row its message names, that a row whose job is about to be added is already
  approved and stays so, that a job's announcement was named by somebody, and
  that whoever is about to finalize has sent. Each conjunct holds for ambiguous
  refs, because every later call uses the id of the last lookup and never the
  prefix. `ApprovalsAreFinal` adds `ApprovalInv`: whoever is about to write an
  approver has one to write.
- **Broadcast, counts.** `Tally`: a step begins a fan-out, finishes one, logs
  one, loses some to a fault, or leaves the counts alone. From that,
  `AccountsHold` (a process that has sent and not logged holds one audit row in
  reserve) gives `AuditRowsStandForFanouts`. `FanoutsArePaidFor` and
  `MissingAuditsArePaidFor` rest on `CostInv`. Its `FanoutInv` counts claims: the
  fan-outs begun for a row, the one its job may yet begin, and the handlers that
  hold the row and may yet begin one or enqueue that job are together at most the
  faults, the overlaps, and one more once the row is decided or held by a
  handler. A handler becomes a claimant at its last lookup, which finds the row
  pending: either nobody else holds it, and it takes the one, or this is an
  overlap. A claim is then spent on a fan-out or a job, or lost to a fault.
  `MissingInv` counts likewise the sends that are over against the audit rows,
  those about to be written, faults and overlaps. Both hold for any concurrency;
  `status_regresses` shows the interleaving an overlap stands for. A message that
  finds the row decided begins nothing, which is why one handler at a time and no
  fault means one fan-out.
- **Broadcast, promises.** `RepliesAreTruthful` and `BroadcastKeepsContract`
  assume `UniquePrefixes`, as the comments on the properties do: with an
  ambiguous ref a retry may find another row than the one the reply was about.
  `ReplyInv` says that whoever is about to answer holds the row the answer is
  about; `TimelyInv` that the time a handler read is still the row's, that a send
  begins when it has come, and that a job is due when its announcement is.
  `ContractStep` maps each step to one of `AnnouncementContract` or to none.
- **Fanout** (`FanoutTypeCorrect`, `RecipientsAreReportedOnce`,
  `PartsArriveInOrder`, `RepeatsArePaidFor`, `FanoutKeepsContract`). A recipient
  is waiting, in one lane or reported; a lane's recipient has the parts before
  the one the lane is at and none after it; a part arrived as often as answers
  to it were lost, or once more. That whoever is reported as sent has every part
  is in `FanoutKeepsContract`.
- **Tickets** (`TicketsTypeCorrect`, `TicketsAreNumberedInOrder`,
  `AttemptsArePaidFor`, `TicketsArePaidFor`, `RacesLoseNoComplaint`). The
  numbers of a year are those up to the number of its tickets; a number in a
  handler's hands that is taken by now was taken by another message's ticket,
  which is what the attempt will cost. Messages that lose races without a fault
  have one ticket each, so there are fewer such tickets than messages.
- **Escalations**: every property of its passing run. `EscalationsTypeCorrect`
  needs `HandlerInv`, which ties the call a handler is about to make to its
  message, its job and the row it holds. `EscalationRepliesAreTrue` and
  `DoneWithIsHeard` follow from what handlers remember (`AnswersInv`) and from
  `Grows`: rows keep their authors and no trace is ever removed, so what was
  true when somebody was told stays true. `StatusIsOnRecord` adds that, without
  faults, each row's status is on the trail or in the hands of a handler about
  to log it. `BlocksAreOnRecord`, `ExtraEscalationsCostFaults` and
  `OmissionsArePaidFor` count: `CountsInv` bounds what a message has left behind
  by the faults so far, less one while a handler is still on its way to do it, so
  that the fault that ends an attempt pays for what the attempt leaves undone.
- **Inbound**: every property of its passing run. For `ThreadsArePrivate`,
  `PrivacyInv` adds that residents' ids are distinct and never given twice, that
  the resident a handler looked up has the phone of the message at hand or none,
  and that the conversation it is about to insert into, if there still is one of
  that id, is that resident's. The two steps of an append are then safe whatever
  the admin does between them: a conversation that was removed has an id no
  later one gets. `InboundTypeCorrect` rests on it (a message's author is a
  resident that was registered). `CostsHold`: a job's failures are paid for by
  faults, by residents that are gone, of whom the one a handler has in hand does
  not count yet, and by complaints that other jobs filed, of which those filed
  since a handler drew its ticket do not count yet: one of them will cost it the
  attempt. `RepeatsHold`: each time an event was appended is in a try
  of its own. `AnswersHold`: a handler has answered every event before the one at
  hand. `GuardsHold`: with a message that a guardrail matches, a handler is on
  the way of an escalation, and past it when it replies.
- **Documents** (`DocumentsTypeCorrect`, `DocumentsChunksMatchRows`,
  `DocumentsChunksCoverText`, `DocumentsObjectsAccountedFor`). The
  types need every text to have a list of chunks: the recursions of
  `SplitSentences` and `PackUnits` go forward, so the functions that satisfy them
  exist (`DescentExists`, `PackingMovesOn`).
  `MatchInv`: a request that is alone with a document is so alone, and knows the
  chunks that are stored at each of its calls (`Knows`); others have marked it
  unclean; and between writes a clean document's chunks match its row.
  `ObjectInv`: an object's row is inserted once, after the object, by its own
  upload; a deletion that read the row has its id, and goes on to delete the
  object only when no row names it. `SourceStays`: a row keeps its source, so
  what a deletion read still names the object.
- **Chunking** (`ChunksOfText`, for a text of any length; `ChunksCoverText` follows
  from it and from `DocumentsChunksMatchRows`). `InOrder` says of a list of parts
  that they lie one after the other between two positions. Paragraphs, sentences
  and hard splits are in order, and so is what is left when each part is
  cut into parts of its own (`FlatInOrder`); all units fit (`Fitting`). `Packed`,
  by induction from the last unit to the first, says that the list of chunks has
  every unit and that each chunk begins with a later one, since the next chunk
  never begins after the end of the last (`PackingMovesOn`). That sentences have
  every character is not so: `NothingLost` is violated.

What TLC alone shows:

- liveness (`CommandsEnd`, `ApprovedIsSent`, `FanoutEnds`), which needs fairness
  and is out of the prover's reach;
- that the model's clauses are not vacuous: every action fires, and a mutant of
  the code breaks each property.

Two definitions have the form they have because of the provers. The library's
induction theorems take a predicate, which the provers cannot instantiate, so
induction goes through least elements of sets. `SortSeq` cannot be expanded, so
`SplitParagraphs` counts positions to find the n-th paragraph's start.

## 5. What is left

1. `Documents`: an abstract knowledge base that maps a source to a content, and
   the proof that requests which do not overlap implement it.
2. Sessions: two messages of one phone that are handled at once each create a
   session id. Nothing depends on the id, so the model has none.

## 6. What is not modelled

The regular expressions that recognise intents, triggers and ticket ids (a text
is the set of those it matches), AI rewording and answers, attachments, redaction,
encryption, similarity, authentication, forms and HTML: pure functions or
external services whose failures are the faults above. Among them is the
pattern of ticket ids, which reads four digits, while the 10000th ticket of a
year has five. Reads that change nothing (the list of open escalations,
the summary of suggestions, the list of residents) are left out where no later
step uses what they read. Statement-level behaviour of PostgreSQL is one atomic
step per statement, which is what its default isolation gives single-row
statements. A stalled job whose process is alive after all, so that two
processes run it at once, is left out: it takes a blocked event loop for longer
than BullMQ's lock.
