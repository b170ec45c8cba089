------------------------------ MODULE Indicators -------------------------------
(***************************************************************************)
(* What shows a user that the agent works: typing, refreshed by a timer,   *)
(* and a reaction on the user's message that changes with the heartbeat.   *)
(*                                                                         *)
(* A call of the platform is not awaited by the code that makes it, so the *)
(* calls of two heartbeats, and those of a heartbeat and of the reply, land *)
(* in any order, or fail and are not tried again.                          *)
(*                                                                         *)
(* One session.                                                            *)
(***************************************************************************)
EXTENDS Naturals, Sequences, FiniteSets, SequencesExt

CONSTANTS
    Messages,     \* messages of users
    NumEmojis,    \* THROBBER_EMOJIS.length
    MaxArrivals,  \* bound: messages that wake the agent
    MaxBeats,     \* bound: heartbeats seen
    MaxRestarts,  \* bound: restarts of the host
    None

VARIABLES
    throbber,   \* the session's target: None, or inflight, idx and its number
    typing,     \* None, or "grace", "paused" or "working"
    beat,       \* the heartbeat file is newer than lastMtimeMs
    container,
    calls,      \* calls of the platform under way
    reactions,  \* what the platform shows on each message
    arrivals, beats, restarts,
    stops,      \* throbbers so far
    excused,    \* messages with a reaction nobody answers for
    quiet       \* no message since the container exited

Emojis == 0 .. NumEmojis - 1

counters == <<arrivals, beats, restarts>>
vars == <<throbber, typing, beat, container, calls, reactions, counters, stops, excused,
          quiet>>

Init ==
    /\ throbber = None /\ typing = None
    /\ beat = FALSE /\ container = FALSE
    /\ calls = {}
    /\ reactions = [m \in Messages |-> {}]
    /\ arrivals = 0 /\ beats = 0 /\ restarts = 0 /\ stops = 0
    /\ excused = {} /\ quiet = FALSE

-----------------------------------------------------------------------------
(* Throbber *)

Known(t, m) == \E i \in DOMAIN t.inflight : t.inflight[i].msg = m

\* faulty variant: the messages before are forgotten
RetargetedOnly(t, m) ==
    [t EXCEPT !.inflight = IF Known(t, m) THEN @ ELSE <<[msg |-> m, last |-> None]>>,
              !.idx = 0]

\* startThrobber on one that runs: the last of inflight is the one that changes
Retargeted(t, m) ==
    [t EXCEPT !.inflight = IF Known(t, m) THEN @ ELSE Append(@, [msg |-> m, last |-> None]),
              !.idx = 0]

Fresh(m) ==
    [inflight |-> <<[msg |-> m, last |-> None]>>, idx |-> 0, number |-> stops]

Call(step, m, emoji, prev, number) ==
    [step |-> step, msg |-> m, emoji |-> emoji, prev |-> prev, number |-> number,
     made |-> beats]

\* cycle: the next reaction is added, and the one before is removed after that
Cycled(t) ==
    LET active == Last(t.inflight)
    IN  Call("add", active.msg, t.idx % NumEmojis, active.last, t.number)

\* stopThrobber: every emoji on every message it had
Cleared(t) ==
    {Call("clear", t.inflight[i].msg, e, None, t.number) :
        i \in DOMAIN t.inflight, e \in Emojis}

\* the rest of a cycle once a call of it is over
Continued(c) ==
    IF c.step = "add" /\ c.prev \notin {None, c.emoji}
    THEN {[c EXCEPT !.step = "remove"]} ELSE {}

\* lastEmoji of the entry a cycle began with, which may be detached by then
Recorded(c) ==
    IF c.step = "clear" \/ Continued(c) # {} \/ throbber = None THEN throbber
    ELSE IF throbber.number # c.number THEN throbber
    ELSE [throbber EXCEPT !.inflight = [i \in DOMAIN @ |->
             IF @[i].msg = c.msg THEN [@[i] EXCEPT !.last = c.emoji] ELSE @[i]]]

-----------------------------------------------------------------------------
(* Typing *)

TypingChanges(to) ==
    /\ typing' = to
    /\ UNCHANGED <<throbber, beat, container, calls, reactions, counters, stops, excused,
                   quiet>>

\* 15 s after the last message, 10 s after the last reply
GraceEnds == typing = "grace" /\ TypingChanges("working")

PauseEnds == typing = "paused" /\ \E to \in {"grace", "working"} : TypingChanges(to)

\* the tick that finds the heartbeat stale is the last
TypingTick == typing = "working" /\ TypingChanges(None)

-----------------------------------------------------------------------------
(* What the rest of the system does *)

\* deliverToAgent, for a message that wakes the agent
Arrive(m) ==
    /\ arrivals < MaxArrivals
    /\ arrivals' = arrivals + 1
    /\ typing' = "grace"
    /\ throbber' = IF throbber = None THEN Fresh(m) ELSE Retargeted(throbber, m)
    /\ beat' = FALSE
    /\ quiet' = FALSE
    /\ UNCHANGED <<container, calls, reactions, beats, restarts, stops, excused>>

\* spawnContainer removes the heartbeat of the container before
Spawn ==
    /\ ~container /\ arrivals > 0
    /\ container' = TRUE
    /\ beat' = FALSE
    /\ UNCHANGED <<throbber, typing, calls, reactions, counters, stops, excused, quiet>>

Heartbeat ==
    /\ container /\ ~beat
    /\ beats < MaxBeats
    /\ beat' = TRUE
    /\ beats' = beats + 1
    /\ UNCHANGED <<throbber, typing, container, calls, reactions, arrivals, restarts,
                   stops, excused, quiet>>

\* fs.watchFile notices it
Watched ==
    /\ throbber # None /\ beat
    /\ beat' = FALSE
    /\ calls' = calls \cup {Cycled(throbber)}
    /\ throbber' = [throbber EXCEPT !.idx = @ + 1]
    /\ UNCHANGED <<typing, container, reactions, counters, stops, excused, quiet>>

\* drainSession, after a message a user sees
Delivered ==
    /\ container \/ throbber # None
    /\ typing' = IF typing = None THEN None ELSE "paused"
    /\ throbber' = None
    /\ IF throbber = None THEN UNCHANGED <<calls, stops, excused>>
       ELSE /\ calls' = calls \cup Cleared(throbber)
            /\ stops' = stops + 1
            /\ excused' = excused \cup {c.msg : c \in {d \in calls : d.step = "add"}}
    /\ UNCHANGED <<beat, container, reactions, counters, quiet>>

\* the process closes: typing ends, the throbber waits for a reply
Exit ==
    /\ container
    /\ container' = FALSE
    /\ typing' = None
    /\ quiet' = TRUE
    /\ UNCHANGED <<throbber, beat, calls, reactions, counters, stops, excused>>

Lands(c) ==
    /\ c \in calls
    /\ reactions' = [reactions EXCEPT ![c.msg] =
           CASE c.step = "add"    -> @ \cup {c.emoji}
             [] c.step = "remove" -> @ \ {c.prev}
             [] c.step = "clear"  -> @ \ {c.emoji}]
    /\ calls' = (calls \ {c}) \cup Continued(c)
    /\ throbber' = Recorded(c)
    /\ UNCHANGED <<typing, beat, container, counters, stops, excused, quiet>>

\* react and unreact swallow the error
Fails(c) ==
    /\ c \in calls
    /\ calls' = (calls \ {c}) \cup Continued(c)
    /\ throbber' = Recorded(c)
    /\ excused' = excused \cup {c.msg}
    /\ UNCHANGED <<typing, beat, container, reactions, counters, stops, quiet>>

Restart ==
    /\ restarts < MaxRestarts
    /\ restarts' = restarts + 1
    /\ throbber' = None /\ typing' = None /\ beat' = FALSE /\ container' = FALSE
    /\ calls' = {}
    /\ stops' = stops + 1
    /\ excused' = excused \cup {m \in Messages :
                      reactions[m] # {} \/ \E c \in calls : c.msg = m}
    /\ quiet' = TRUE
    /\ UNCHANGED <<reactions, arrivals, beats>>

Next ==
    \/ \E m \in Messages : Arrive(m)
    \/ Spawn \/ Heartbeat \/ Watched \/ Delivered \/ Exit \/ Restart
    \/ GraceEnds \/ PauseEnds \/ TypingTick
    \/ \E c \in calls : Lands(c) \/ Fails(c)

Spec == Init /\ [][Next]_vars

-----------------------------------------------------------------------------
(* Property *)

\* When the reply was delivered and every call has landed, no message keeps a reaction,
\* those of the messages before the last included; an addition that was under way when
\* the reply came, a failed call and a restart are excused. And once the container has
\* exited, typing does not go on without a new message (throbber and typing).
NothingLeftBehind ==
    /\ throbber = None /\ calls = {} =>
           \A m \in Messages \ excused : reactions[m] = {}
    /\ quiet => typing = None
=============================================================================
