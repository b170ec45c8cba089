------------------------------ MODULE SdkState ------------------------------
(* src/state-sqlite.ts: the store the Chat SDK keeps in the host's database.  *)
(* Handlers of the SDK take a thread's lock for a time, claim a key (the id   *)
(* of a message, so that it is handled once) and queue what arrives while the *)
(* lock is taken.  Rows survive the handler that wrote them, so every lock    *)
(* has an expiry and a token; the handler keeps a copy of both.               *)
EXTENDS Naturals, Sequences, SequencesExt

CONSTANTS
  Handlers,    \* handlers of the SDK that run at the same time
  Entries,     \* what can be queued for the thread
  None,
  Ttl,         \* how long a lock or a claim is asked for
  MaxNow,      \* bound on the clock
  MaxTokens,   \* bound on the locks handed out
  MaxSize      \* the queue's limit

VARIABLES
  now,      \* Date.now()
  row,      \* the thread's row in chat_sdk_locks: None or [token, until]
  mine,     \* the Lock object a handler holds, or None
  tokens,   \* tokens drawn so far; every randomUUID is a new one
  forced,   \* tokens whose lock was released by force
  key,      \* expiry of the claimed key in chat_sdk_kv, or None
  claims,   \* by handler: the expiry of the claim it was given, or None
  list      \* the thread's queue in chat_sdk_lists: a sequence of [idx, value]

vars  == <<now, row, mine, tokens, forced, key, claims, list>>
locks == <<row, mine, tokens, forced>>

Init ==
  /\ now = 0 /\ row = None /\ key = None /\ tokens = 0 /\ forced = {}
  /\ mine = [h \in Handlers |-> None]
  /\ claims = [h \in Handlers |-> None]
  /\ list = << >>

Tick == now < MaxNow /\ now' = now + 1 /\ UNCHANGED <<locks, key, claims, list>>

(* A row is deleted once its time is past; at the very moment it still counts. *)
Lapsed(until) == until < now

Standing == IF row # None /\ Lapsed(row.until) THEN None ELSE row

(* acquireLock: the lapsed row goes, the new one is inserted unless another is *)
(* there.                                                                      *)
AcquireLock(h) ==
  /\ mine[h] = None /\ tokens < MaxTokens
  /\ IF Standing = None
       THEN /\ row' = [token |-> tokens, until |-> now + Ttl]
            /\ mine' = [mine EXCEPT ![h] = row']
       ELSE UNCHANGED <<row, mine>>
  /\ tokens' = tokens + 1
  /\ UNCHANGED <<now, forced, key, claims, list>>

(* A faulty variant: the row goes whoever holds it. *)
ReleaseLockByThread(h) ==
  /\ mine[h] # None
  /\ row' = None
  /\ mine' = [mine EXCEPT ![h] = None]
  /\ UNCHANGED <<now, tokens, forced, key, claims, list>>

(* releaseLock deletes the row with the token of the caller's lock. *)
ReleaseLock(h) ==
  /\ mine[h] # None
  /\ row' = IF row # None /\ row.token = mine[h].token THEN None ELSE row
  /\ mine' = [mine EXCEPT ![h] = None]
  /\ UNCHANGED <<now, tokens, forced, key, claims, list>>

(* extendLock renews a row that still has the caller's token, also one whose  *)
(* time is past.                                                              *)
ExtendLock(h) ==
  /\ mine[h] # None
  /\ IF row # None /\ row.token = mine[h].token
       THEN /\ row' = [row EXCEPT !.until = now + Ttl]
            /\ mine' = [mine EXCEPT ![h] = row']
       ELSE UNCHANGED <<row, mine>>
  /\ UNCHANGED <<now, tokens, forced, key, claims, list>>

ForceReleaseLock ==
  /\ row # None
  /\ row' = None /\ forced' = forced \cup {row.token}
  /\ UNCHANGED <<now, mine, tokens, key, claims, list>>

(* setIfNotExists: a lapsed row goes first; who inserts has the claim. *)
SetIfNotExists(h) ==
  /\ claims[h] = None
  /\ IF key = None \/ Lapsed(key)
       THEN key' = now + Ttl /\ claims' = [claims EXCEPT ![h] = key']
       ELSE UNCHANGED <<key, claims>>
  /\ UNCHANGED <<now, locks, list>>

(* The handler that claimed the key is done with its message. *)
Handled(h) ==
  /\ claims[h] # None
  /\ claims' = [claims EXCEPT ![h] = None]
  /\ UNCHANGED <<now, locks, key, list>>

(* get and connect clear every table of what has lapsed. *)
Cleanup ==
  /\ row' = Standing
  /\ key' = IF key # None /\ Lapsed(key) THEN None ELSE key
  /\ UNCHANGED <<now, mine, tokens, forced, claims, list>>

(* appendToList: the next index is one past the largest there is; with a      *)
(* limit, everything up to that index less the limit goes.                    *)
Append1(entries, value, limit) ==
  LET next == IF entries = << >> THEN 0 ELSE Last(entries).idx + 1
      kept(e) == e.idx + limit > next
  IN  SelectSeq(Append(entries, [idx |-> next, value |-> value]), kept)

Enqueue(value) ==
  /\ (list # << >> => Last(list).idx < 2 * MaxSize)     \* bound
  /\ list' = Append1(list, value, MaxSize)
  /\ UNCHANGED <<now, locks, key, claims>>

(* dequeue takes the smallest index. *)
Dequeue ==
  /\ list # << >> /\ list' = Tail(list)
  /\ UNCHANGED <<now, locks, key, claims>>

Next ==
  \/ Tick \/ ForceReleaseLock \/ Cleanup \/ Dequeue
  \/ \E value \in Entries : Enqueue(value)
  \/ \E h \in Handlers : \/ AcquireLock(h) \/ ReleaseLock(h) \/ ExtendLock(h)
                         \/ SetIfNotExists(h) \/ Handled(h)

Spec == Init /\ [][Next]_vars

-----------------------------------------------------------------------------

LocksExclude ==
  \A g, h \in Handlers :
    /\ mine[g] # None /\ mine[h] # None /\ g # h
    /\ ~Lapsed(mine[g].until) /\ ~Lapsed(mine[h].until)
    => {mine[g].token, mine[h].token} \cap forced # {}

ClaimsExclude ==
  \A g, h \in Handlers :
    claims[g] # None /\ claims[h] # None /\ g # h
      => Lapsed(claims[g]) \/ Lapsed(claims[h])

(* Of the handlers that hold the thread's lock, or a claim on a message, at   *)
(* most one is within its time: a lock that lapsed, was taken by another and  *)
(* is then released or extended by its first holder leaves the second one's   *)
(* alone (state-sqlite.ts acquireLock, releaseLock, extendLock,               *)
(* setIfNotExists).  Only forceReleaseLock may break in.                      *)
OneHolder == LocksExclude /\ ClaimsExclude

=============================================================================
