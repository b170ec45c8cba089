------------------------------- MODULE Outgoing -------------------------------
(***************************************************************************)
(* What a session writes to messages_out, and under which number.          *)
(*                                                                         *)
(* Two processes of the container write there: the poll loop and the MCP   *)
(* server, which the SDK starts beside it.  Both run writeMessageOut, which*)
(* reads the highest number of each database and then inserts the next odd *)
(* one; both have a chatDeliveryCount of their own.  The host writes       *)
(* messages_in with even numbers.  It writes nothing to messages_out: the  *)
(* handle it opens is readonly, and its three inserts (a denied command, an*)
(* alert of the resource monitor, the startup notice) throw.               *)
(***************************************************************************)
EXTENDS Integers, FiniteSets

CONSTANTS
    MaxSeq,    \* bound: numbers of a session
    MaxTurns,  \* bound: turns
    None

Numbers == 1 .. MaxSeq
Writers == {"loop", "tools"}

VARIABLES
    inbound,  \* numbers of messages_in
    outbound, \* messages_out: number, what it is, and of which turn
    writing,  \* writeMessageOut under way in each process
    count,    \* chatDeliveryCount of each process
    turn,     \* turns begun
    phase,    \* where the poll loop is in its turn
    known     \* numbers the agent has been given, with the table they stand for

vars == <<inbound, outbound, writing, count, turn, phase, known>>

Init ==
    /\ inbound = {}
    /\ outbound = {}
    /\ writing = [w \in Writers |-> None]
    /\ count = [w \in Writers |-> 0]
    /\ turn = 0
    /\ phase = "idle"
    /\ known = {}

-----------------------------------------------------------------------------

Highest(S) == CHOOSE n \in S \cup {0} : \A m \in S : m <= n

Out == {row.seq : row \in outbound}

\* faulty variant: the next number, whatever its parity
NextOfEither(n) == n + 1

NextOdd(n) == IF n % 2 = 0 THEN n + 1 ELSE n + 2

NextEven(n) == IF n < 2 THEN 2 ELSE n + 2 - (n % 2)

\* getMessageIdBySeq: messages_in is asked first
Found(n) == IF n \in inbound THEN "in" ELSE IF n \in Out THEN "out" ELSE None

\* insertMessage, insertTask and insertRecurrence
HostWritesIn ==
    LET n == NextEven(Highest(inbound)) IN
    /\ n \in Numbers
    /\ inbound' = inbound \cup {n}
    /\ known' = known \cup {<<n, "in">>}
    /\ UNCHANGED <<outbound, writing, count, turn, phase>>

-----------------------------------------------------------------------------
(* writeMessageOut                                                         *)

Begin(w, what) ==
    writing' = [writing EXCEPT ![w] = [what |-> what, turn |-> turn, out |-> Highest(Out),
                                    all |-> None]]

ReadsIn(w) ==
    /\ writing[w] # None
    /\ writing[w].all = None
    /\ LET o == writing[w].out
           i == Highest(inbound)
       IN  writing' = [writing EXCEPT ![w].all = IF o > i THEN o ELSE i]
    /\ UNCHANGED <<inbound, outbound, count, turn, phase, known>>

Ready(w) == writing[w] # None /\ writing[w].all # None

\* the counter is that of the process that writes
Inserts(w) ==
    LET n == NextOdd(writing[w].all) IN
    /\ Ready(w)
    /\ n \in Numbers \ Out
    /\ outbound' = outbound \cup {[seq |-> n, what |-> writing[w].what,
                                    turn |-> writing[w].turn]}
    /\ count' = [count EXCEPT ![w] = IF writing[w].what = "notice" THEN @ ELSE @ + 1]
    /\ writing' = [writing EXCEPT ![w] = None]
    /\ known' = known \cup {<<n, "out">>}

\* the tool returns the number; the loop is done with its turn
ToolInserts ==
    /\ Inserts("tools")
    /\ UNCHANGED <<inbound, turn, phase>>

LoopInserts ==
    /\ writing["loop"] # None
    /\ phase' = CASE writing["loop"].what = "notice" -> phase
                  [] writing["loop"].what = "error"  -> "idle"
                  [] OTHER                           -> "replied"
    /\ Inserts("loop")
    /\ UNCHANGED <<inbound, turn>>

\* UNIQUE (seq): the other process took the number; the tool returns an error
ToolCollides ==
    /\ Ready("tools")
    /\ NextOdd(writing["tools"].all) \in Out
    /\ writing' = [writing EXCEPT !["tools"] = None]
    /\ UNCHANGED <<inbound, outbound, count, turn, phase, known>>

\* the query fails, and the poll loop writes the error instead
LoopCollides ==
    /\ Ready("loop")
    /\ NextOdd(writing["loop"].all) \in Out
    /\ Begin("loop", "error")
    /\ phase' = "replying"
    /\ UNCHANGED <<inbound, outbound, count, turn, known>>

-----------------------------------------------------------------------------
(* A turn                                                                  *)

TurnBegins ==
    /\ phase = "idle"
    /\ turn < MaxTurns
    /\ turn' = turn + 1
    /\ phase' = "running"
    /\ count' = [count EXCEPT !["loop"] = 0]
    /\ UNCHANGED <<inbound, outbound, writing, known>>

\* send_message and send_file; edit_message and add_reaction of a number it knows
Tool ==
    /\ phase = "running"
    /\ writing["tools"] = None
    /\ \/ Begin("tools", "message")
       \/ \E k \in known : Found(k[1]) # None /\ Begin("tools", "edit")
    /\ UNCHANGED <<inbound, outbound, count, turn, phase, known>>

\* a compaction notice of the provider, which does not count
Notice ==
    /\ phase = "running"
    /\ writing["loop"] = None
    /\ Begin("loop", "notice")
    /\ UNCHANGED <<inbound, outbound, count, turn, phase, known>>

\* the result, once the tools have returned: dispatchResultText sends a block to its
\* destination, and the rest, <internal> or not, unless a reply was counted
Result ==
    /\ phase = "running"
    /\ \A w \in Writers : writing[w] = None
    /\ \/ /\ Begin("loop", "block")
          /\ phase' = "replying"
       \/ /\ count["loop"] = 0
          /\ Begin("loop", "reply")
          /\ phase' = "replying"
       \/ /\ phase' = "replied"
          /\ UNCHANGED writing
    /\ UNCHANGED <<inbound, outbound, count, turn, known>>

\* the counter is reset; the query stays open
TurnEnds ==
    /\ phase = "replied"
    /\ count' = [count EXCEPT !["loop"] = 0]
    /\ phase' = "idle"
    /\ UNCHANGED <<inbound, outbound, writing, turn, known>>

Next ==
    \/ HostWritesIn
    \/ \E w \in Writers : ReadsIn(w)
    \/ ToolInserts \/ LoopInserts \/ ToolCollides \/ LoopCollides
    \/ TurnBegins \/ Tool \/ Notice \/ Result \/ TurnEnds

Spec == Init /\ [][Next]_vars

-----------------------------------------------------------------------------
(* Properties                                                              *)

\* A number the agent was given keeps its meaning: it leads to the message it was
\* given for, although two processes read the highest numbers before they insert,
\* the host inserts between, and both tables are asked ("the agent's 'edit message
\* #5' could resolve to the wrong row", messages-out.ts).
NumbersResolve == \A k \in known : Found(k[1]) = k[2]

\* "if the agent already delivered chat output via tool this turn (send_message,
\* ...), drop the trailing turn-text" (poll-loop.ts): no turn has both.
RepliesOnce ==
    \A r, q \in outbound : ~(r.what = "message" /\ q.what = "reply" /\ r.turn = q.turn)
=============================================================================
