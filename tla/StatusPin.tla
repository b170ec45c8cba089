------------------------------- MODULE StatusPin -------------------------------
(***************************************************************************)
(* The pinned status messages (modules/status-pin): one per channel, edited*)
(* in place on every tick.  Its id is kept in chat_sdk_kv; pins the table  *)
(* does not know any more are looked for and unpinned.                     *)
(*                                                                         *)
(* setInterval does not wait for the last tick, so several run at once; a  *)
(* tick is the sequence of the calls to Discord it awaits.  One channel is *)
(* modelled: the channels of a tick follow each other and share nothing.   *)
(***************************************************************************)
EXTENDS Integers, FiniteSets

CONSTANTS
    Ticks,        \* bound: ticks under way at once
    Ids,          \* status messages, ever
    MaxRestarts,  \* bound: restarts of the host
    None

VARIABLES
    kv,       \* chat_sdk_kv: the id of the status message
    posted,   \* status messages on the channel
    pinned,   \* those that are pinned
    deleted,  \* those that somebody has deleted
    scanned,  \* lastStaleScanMs is recent
    tick,     \* the calls of updateOne under way
    dropped,  \* history: messages unpinned by a scan while the table named them
    restarts

vars == <<kv, posted, pinned, deleted, scanned, tick, dropped, restarts>>

Init ==
    /\ kv = None
    /\ posted = {}
    /\ pinned = {}
    /\ deleted = {}
    /\ scanned = FALSE
    /\ tick = [t \in Ticks |-> None]
    /\ dropped = {}
    /\ restarts = 0

\* `had` is the id read first, `pins` Discord's list and what of it is still to be
\* unpinned, `id` the message posted; `scan` tells the two scans of a tick apart
At(t, place) == tick[t] # None /\ tick[t].at = place

Ends(t) == tick' = [tick EXCEPT ![t] = None]

\* the scan that is due comes before the edit, the other one before the post
AfterScan(k) ==
    IF k.scan = 1 /\ k.had # None THEN [k EXCEPT !.at = "edit"]
    ELSE IF k.scan = 1 THEN [k EXCEPT !.at = "list", !.scan = 2, !.pins = {}]
    ELSE [k EXCEPT !.at = "post", !.pins = {}]

-----------------------------------------------------------------------------

Begin(t) ==
    LET k == [at |-> "list", scan |-> 1, had |-> kv, pins |-> {}, id |-> None] IN
    /\ tick[t] = None
    /\ tick' = [tick EXCEPT ![t] = IF scanned THEN AfterScan(k) ELSE k]
    /\ scanned' = TRUE
    /\ UNCHANGED <<kv, posted, pinned, deleted, dropped, restarts>>

\* STALE_SCAN_INTERVAL_MS has gone by
ScanDue ==
    /\ scanned
    /\ scanned' = FALSE
    /\ UNCHANGED <<kv, posted, pinned, deleted, tick, dropped, restarts>>

\* unpinStalePins: Discord lists the pins; then the answer is read, and the table
DiscordLists(t) ==
    /\ At(t, "list")
    /\ tick' = [tick EXCEPT ![t].at = "listed", ![t].pins = pinned]
    /\ UNCHANGED <<kv, posted, pinned, deleted, scanned, dropped, restarts>>

\* faulty variant: the id known before the awaits is spared
ListedStale(t) ==
    /\ At(t, "listed")
    /\ tick' = [tick EXCEPT ![t].at = "unpin", ![t].pins = @ \ {tick[t].had}]
    /\ UNCHANGED <<kv, posted, pinned, deleted, scanned, dropped, restarts>>

Listed(t) ==
    /\ At(t, "listed")
    /\ tick' = [tick EXCEPT ![t].at = "unpin", ![t].pins = @ \ {kv}]
    /\ UNCHANGED <<kv, posted, pinned, deleted, scanned, dropped, restarts>>

Unpin(t, m) ==
    /\ At(t, "unpin")
    /\ m \in tick[t].pins
    /\ \/ /\ pinned' = pinned \ {m}
          /\ dropped' = IF m = kv THEN dropped \cup {m} ELSE dropped
       \/ UNCHANGED <<pinned, dropped>>
    /\ tick' = [tick EXCEPT ![t].pins = @ \ {m}]
    /\ UNCHANGED <<kv, posted, deleted, scanned, restarts>>

\* all are unpinned, or the list could not be had
ScanEnds(t) ==
    /\ At(t, "list") \/ At(t, "listed") \/ (At(t, "unpin") /\ tick[t].pins = {})
    /\ tick' = [tick EXCEPT ![t] = AfterScan([@ EXCEPT !.pins = {}])]
    /\ UNCHANGED <<kv, posted, pinned, deleted, scanned, dropped, restarts>>

\* well, or with an error that is taken for transient
Edited(t) ==
    /\ At(t, "edit")
    /\ Ends(t)
    /\ UNCHANGED <<kv, posted, pinned, deleted, scanned, dropped, restarts>>

\* DISCORD_UNKNOWN_MESSAGE
Missing(t) ==
    /\ At(t, "edit")
    /\ tick[t].had \in deleted
    /\ kv' = None
    /\ tick' = [tick EXCEPT ![t].at = "list", ![t].scan = 2]
    /\ UNCHANGED <<posted, pinned, deleted, scanned, dropped, restarts>>

DiscordPosts(t, m) ==
    /\ At(t, "post")
    /\ tick[t].id = None
    /\ m \notin posted \cup deleted
    /\ posted' = posted \cup {m}
    /\ tick' = [tick EXCEPT ![t].id = m]
    /\ UNCHANGED <<kv, pinned, deleted, scanned, dropped, restarts>>

Posted(t) ==
    /\ At(t, "post")
    /\ tick[t].id # None
    /\ kv' = tick[t].id
    /\ tick' = [tick EXCEPT ![t].at = "pin"]
    /\ UNCHANGED <<posted, pinned, deleted, scanned, dropped, restarts>>

\* refused, or the answer is lost
PostFails(t) ==
    /\ At(t, "post")
    /\ Ends(t)
    /\ UNCHANGED <<kv, posted, pinned, deleted, scanned, dropped, restarts>>

Pins(t) ==
    /\ At(t, "pin")
    /\ pinned' \in {pinned, pinned \cup ({tick[t].id} \cap posted)}
    /\ Ends(t)
    /\ UNCHANGED <<kv, posted, deleted, scanned, dropped, restarts>>

SomebodyDeletes(m) ==
    /\ m \in posted
    /\ posted' = posted \ {m}
    /\ pinned' = pinned \ {m}
    /\ deleted' = deleted \cup {m}
    /\ UNCHANGED <<kv, scanned, tick, dropped, restarts>>

Restart ==
    /\ restarts < MaxRestarts
    /\ restarts' = restarts + 1
    /\ scanned' = FALSE
    /\ tick' = [t \in Ticks |-> None]
    /\ UNCHANGED <<kv, posted, pinned, deleted, dropped>>

Next ==
    \/ \E t \in Ticks :
          \/ Begin(t) \/ DiscordLists(t) \/ Listed(t) \/ ScanEnds(t) \/ Edited(t)
          \/ Missing(t) \/ Posted(t) \/ PostFails(t) \/ Pins(t)
          \/ \E m \in Ids : Unpin(t, m) \/ DiscordPosts(t, m)
    \/ \E m \in Ids : SomebodyDeletes(m)
    \/ ScanDue \/ Restart

Spec == Init /\ [][Next]_vars

-----------------------------------------------------------------------------
(* Properties                                                              *)

\* No scan takes the current status message down, although ticks overlap and each
\* may post, forget and unpin: the table is read after the list of pins, and a
\* message is pinned only after the table names it.
CurrentStaysPinned == dropped = {}
=============================================================================
