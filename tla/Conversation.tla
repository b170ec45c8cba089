---------------------------- MODULE Conversation ----------------------------
(* How a container's agent remembers: the poll loop of the agent runner       *)
(* (poll-loop.ts), the Claude provider's query (providers/claude.ts) and the  *)
(* session id both keep in outbound.db (db/session-state.ts).  A query starts *)
(* from a continuation, the SDK answers with the id of the session it is in,  *)
(* and /clear makes the next query start afresh.  The container may die at    *)
(* any step; the next one reads back the id and claims the same rows again.   *)
EXTENDS Naturals, Sequences, SequencesExt

CONSTANTS
  None,
  MaxRows,       \* bound on the rows that arrive
  MaxSessions,   \* bound on the sessions the SDK starts
  MaxCrashes     \* bound on the containers that die

VARIABLES
  rows,       \* messages_in, oldest first: [kind, ack], kind "chat" or "clear"
  stored,     \* session_state: sdk_session_id, or None
  memory,     \* runPollLoop's continuation, or None
  resuming,   \* isResume of this container
  loop,       \* "down", "idle", "claimed", "cleared" or "query"
  batch,      \* indices of the rows this iteration claimed
  first,      \* firstBatch of this container
  query,      \* None, or the open query: [from, id]
  unread,     \* prompts in the provider's MessageStream
  transcripts,\* sessions whose transcript is on disk
  banner,     \* the last prompt began with the restart banner
  sessions,   \* sessions begun so far
  forgotten,  \* sessions that were there when a /clear was carried out
  crashes

vars == <<rows, stored, memory, resuming, loop, batch, first, query, unread,
          transcripts, banner, sessions, forgotten, crashes>>

container == <<memory, resuming, first, banner>>
history   == <<sessions, forgotten, crashes>>

Init ==
  /\ rows = << >> /\ stored = None /\ memory = None /\ resuming = FALSE
  /\ loop = "down" /\ batch = {} /\ first = TRUE /\ query = None
  /\ unread = << >> /\ transcripts = {} /\ banner = FALSE
  /\ sessions = 0 /\ forgotten = {} /\ crashes = 0

Arrives(kind) ==
  /\ Len(rows) < MaxRows
  /\ rows' = Append(rows, [kind |-> kind, ack |-> "none"])
  /\ UNCHANGED <<stored, container, loop, batch, query, unread, transcripts, history>>

Pending == {i \in DOMAIN rows : rows[i].ack = "none"}

Acked(indices, ack) ==
  [i \in DOMAIN rows |-> IF i \in indices THEN [rows[i] EXCEPT !.ack = ack] ELSE rows[i]]

(* A container starts: it reads the session id and drops the claims of the    *)
(* one before it (clearStaleProcessingAcks).                                  *)
Boot ==
  /\ loop = "down"
  /\ memory' = stored /\ resuming' = (stored # None)
  /\ first' = TRUE /\ banner' = FALSE
  /\ rows' = [i \in DOMAIN rows |-> IF rows[i].ack = "processing"
                                      THEN [rows[i] EXCEPT !.ack = "none"] ELSE rows[i]]
  /\ loop' = "idle"
  /\ UNCHANGED <<stored, batch, query, unread, transcripts, history>>

(* The container dies, with its query and the stream's prompts. *)
Crash ==
  /\ loop # "down" /\ crashes < MaxCrashes
  /\ loop' = "down" /\ batch' = {} /\ query' = None /\ unread' = << >>
  /\ crashes' = crashes + 1
  /\ UNCHANGED <<rows, stored, container, transcripts, sessions, forgotten>>

Claim ==
  /\ loop = "idle" /\ Pending # {}
  /\ rows' = Acked(Pending, "processing")
  /\ batch' = Pending /\ loop' = "claimed"
  /\ UNCHANGED <<stored, container, query, unread, transcripts, history>>

Clears == {i \in batch : rows[i].kind = "clear"}
Turns  == batch \ Clears

(* A faulty variant: only the running container forgets. *)
ForgetInMemory == memory' = None /\ UNCHANGED stored

(* clearStoredSessionId, and the loop's own copy with it. *)
Forget == memory' = None /\ stored' = None

(* The batch is looked through for /clear: wherever in it one stands, the     *)
(* query of this batch starts afresh.                                         *)
RunCommands ==
  /\ loop = "claimed"
  /\ IF Clears # {}
       THEN Forget /\ forgotten' = 1..sessions
       ELSE UNCHANGED <<memory, stored, forgotten>>
  /\ loop' = "cleared"
  /\ UNCHANGED <<rows, resuming, batch, first, query, unread, transcripts,
                 banner, sessions, crashes>>

(* A batch of commands alone needs no query. *)
OnlyCommands ==
  /\ loop = "cleared" /\ Turns = {}
  /\ rows' = Acked(Clears, "completed")
  /\ batch' = {} /\ loop' = "idle"
  /\ UNCHANGED <<stored, container, query, unread, transcripts, history>>

(* The commands are completed and the query is opened with what is left.  The *)
(* first prompt of a container that found a session id carries the restart    *)
(* banner, even when this batch has just cleared the session.                 *)
OpenQuery ==
  /\ loop = "cleared" /\ Turns # {}
  /\ rows' = Acked(Clears, "completed")
  /\ query' = [from |-> memory, id |-> None]
  /\ unread' = <<Turns>>
  /\ banner' = (first /\ resuming) /\ first' = FALSE
  /\ loop' = "query"
  /\ UNCHANGED <<stored, memory, resuming, batch, transcripts, history>>

(* The SDK reads its prompts and says which session it is in: the one it was  *)
(* to resume or a new one, which is stored at once.                           *)
InSession(id) ==
  /\ query' = [query EXCEPT !.id = id]
  /\ stored' = id
  /\ transcripts' = transcripts \cup {id}
  /\ sessions' = IF id > sessions THEN id ELSE sessions

Started ==
  /\ loop = "query" /\ query.id = None /\ unread # << >>
  /\ unread' = Tail(unread)
  /\ \/ query.from # None /\ query.from \in transcripts /\ InSession(query.from)
     \/ sessions < MaxSessions /\ InSession(sessions + 1)
  /\ UNCHANGED <<rows, container, loop, batch, forgotten, crashes>>

(* The loop polls beside the open query: everything but /clear is pushed into *)
(* the stream and completed.                                                  *)
FollowUp ==
  /\ loop = "query"
  /\ LET new == {i \in Pending : rows[i].kind # "clear"} IN
     /\ new # {}
     /\ rows' = Acked(new, "completed")
     /\ unread' = Append(unread, new)
  /\ UNCHANGED <<stored, container, loop, batch, query, transcripts, history>>

(* The stream's iterator hands the next prompt on. *)
Read ==
  /\ loop = "query" /\ query.id # None /\ unread # << >>
  /\ unread' = Tail(unread)
  /\ UNCHANGED <<rows, stored, container, loop, batch, query, transcripts, history>>

(* A result ends the turn of the batch; the query stays open. *)
TurnDone ==
  /\ loop = "query" /\ query.id # None
  /\ rows' = Acked(Turns, "completed")
  /\ UNCHANGED <<stored, container, loop, batch, query, unread, transcripts, history>>

(* The SDK closes the stream; the loop takes the query's session over. *)
Closed ==
  /\ loop = "query"
  /\ rows' = Acked(Turns, "completed")
  /\ IF query.id # None THEN memory' = query.id /\ stored' = query.id
                        ELSE UNCHANGED <<memory, stored>>
  /\ loop' = "idle" /\ batch' = {} /\ query' = None /\ unread' = << >>
  /\ UNCHANGED <<resuming, first, transcripts, banner, history>>

(* The query throws.  Its session was stored but the loop's copy is the one   *)
(* from before; an error that says the session cannot be found drops both.    *)
Throws ==
  /\ loop = "query"
  /\ \/ memory # None /\ memory \notin transcripts /\ Forget
     \/ UNCHANGED <<memory, stored>>
  /\ rows' = Acked(Turns, "completed")
  /\ loop' = "idle" /\ batch' = {} /\ query' = None /\ unread' = << >>
  /\ UNCHANGED <<resuming, first, transcripts, banner, history>>

(* A transcript goes: the image or the session's directory was replaced. *)
TranscriptLost ==
  /\ loop = "down" /\ transcripts # {}
  /\ transcripts' = {}
  /\ UNCHANGED <<rows, stored, container, loop, batch, query, unread, history>>

Next ==
  \/ Boot \/ Crash \/ Claim \/ RunCommands \/ OnlyCommands \/ OpenQuery
  \/ Started \/ FollowUp \/ Read \/ TurnDone \/ Closed \/ Throws
  \/ TranscriptLost
  \/ \E kind \in {"chat", "clear"} : Arrives(kind)

Spec == Init /\ [][Next]_vars

-----------------------------------------------------------------------------

(* No query resumes or is in a session from before a /clear that was carried  *)
(* out, and neither copy of the id leads back to one, whatever container dies *)
(* in between and whatever the query after it threw (poll-loop.ts             *)
(* runPollLoop, session-state.ts clearStoredSessionId).                       *)
ClearForgets ==
  /\ query # None => {query.from, query.id} \cap forgotten = {}
  /\ loop # "down" => memory \notin forgotten
  /\ stored \notin forgotten

=============================================================================
