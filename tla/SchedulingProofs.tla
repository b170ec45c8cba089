-------------------------- MODULE SchedulingProofs --------------------------
(***************************************************************************)
(* What Scheduling promises for every set of series, every bound and every *)
(* set of commands.  The inductive invariant ties the position of the      *)
(* sweep to the rows it has collected (Loop), says that a row whose        *)
(* recurrence is still to be used was acknowledged (Acked), that a series  *)
(* starts with its first row (Rooted), and that a run and a token of one   *)
(* series are the same row (ClaimsAlone).                                  *)
(***************************************************************************)
EXTENDS Scheduling, TLAPS

Loop ==
    /\ pc \in {"parse", "inserted"} => recurring \subseteq CompletedRecurring
    /\ pc = "inserted" => /\ msg \in recurring
                          /\ newId \in Rows
                          /\ newId[1] = msg[1]
                          /\ status[newId] = "pending"
                          /\ recurrence[newId] # "none"

Acked == \A r \in CompletedRecurring : ack[r] = "completed"

Rooted == \A r \in Rows :
    /\ status[SeriesId(r[1])] = "absent" => status[r] = "absent"
    /\ status[r] = "absent" => recurrence[r] = "none" /\ ack[r] = "none"

ClaimsAlone == \A q, t \in Rows :
    q \in Claims /\ Token(t) /\ q[1] = t[1] /\ q[1] \notin torn
        => q = t \/ (pc = "inserted" /\ t = msg /\ q = newId)

Safe == OneToken /\ NoOverlap /\ ClaimsAlone

Rest == Loop /\ Acked /\ Rooted /\ Safe /\ CancelFinal /\ SeriesSurvives

IInv == TypeOK /\ Rest

-----------------------------------------------------------------------------
(* A row is its series and its number.                                     *)
LEMMA RowIs == \A r \in Rows : /\ r[1] \in Series
                               /\ r[2] \in 1 .. MaxRuns
                               /\ r = <<r[1], r[2]>>
BY DEF Rows

LEMMA FirstIsRow == \A s \in Series : SeriesId(s) \in Rows /\ SeriesId(s)[1] = s
BY RunsAssumption DEF Rows, SeriesId

(* A command reaches rows of one series only.                              *)
LEMMA MatchesOneSeries ==
    ASSUME NEW id \in Rows, NEW r \in Matches(id)
    PROVE  r \in Rows /\ r[1] = id[1]
BY RowIs, FirstIsRow DEF Matches, SeriesId

(* The statuses a sweep leaves behind have the type of statuses.           *)
LEMMA SweptTyping ==
    ASSUME TypeOK, NEW base,
           base \in [Rows -> {"absent", "pending", "paused", "completed", "failed"}],
           Inspect(base)
    PROVE  /\ status' \in [Rows -> {"absent", "pending", "paused", "completed", "failed"}]
           /\ alive' \in BOOLEAN
           /\ faults' \in Nat
<1>1. GivesUp(base) \/ status' = base
  BY DEF Inspect
<1>2. status' \in [Rows -> {"absent", "pending", "paused", "completed", "failed"}]
  BY <1>1 DEF GivesUp
<1>3. alive' = alive \/ alive' = FALSE
  BY DEF Inspect
<1>4. alive' \in BOOLEAN
  BY <1>3 DEF TypeOK
<1>5. faults' = faults \/ faults' = faults + 1
  BY DEF Inspect, Fault
<1> QED
  BY <1>2, <1>4, <1>5 DEF TypeOK

LEMMA SyncedTyping ==
    TypeOK => Synced \in [Rows -> {"absent", "pending", "paused", "completed", "failed"}]
BY DEF TypeOK, Synced

-----------------------------------------------------------------------------
LEMMA TypeInit == Init => TypeOK
<1> SUFFICES ASSUME Init PROVE TypeOK
  OBVIOUS
<1>1. alive \in BOOLEAN
  BY DEF Init
<1>2. /\ status = [r \in Rows |-> "absent"] /\ recurrence = [r \in Rows |-> "none"]
      /\ ack = [r \in Rows |-> "none"] /\ ended = [s \in Series |-> "no"]
      /\ pc = "idle" /\ recurring = {} /\ msg = None /\ newId = None
      /\ held = {} /\ torn = {} /\ faults = 0
  BY DEF Init
<1> QED
  BY <1>1, <1>2 DEF TypeOK, Crons

LEMMA TypeNext == TypeOK /\ Loop /\ [Next]_vars => TypeOK'
<1> SUFFICES ASSUME TypeOK, Loop, [Next]_vars PROVE TypeOK'
  OBVIOUS
<1>0. CASE UNCHANGED vars
  BY <1>0 DEF TypeOK, vars
<1>1. ASSUME NEW s \in Series, Schedule(s) PROVE TypeOK'
  BY <1>1, FirstIsRow DEF TypeOK, Schedule, Crons, sweepVars
<1>2. ASSUME NEW id \in Rows, Cancel(id) PROVE TypeOK'
  BY <1>2, RowIs DEF TypeOK, Cancel, Ends, Moved, Crons, sweepVars
<1>3. ASSUME NEW id \in Rows, Pause(id) PROVE TypeOK'
  BY <1>3 DEF TypeOK, Pause, Moved, Named, sweepVars
<1>4. ASSUME NEW id \in Rows, Resume(id) PROVE TypeOK'
  BY <1>4 DEF TypeOK, Resume, Moved, Named, sweepVars
<1>5. ASSUME NEW id \in Rows, Update(id) PROVE TypeOK'
  BY <1>5, RowIs DEF TypeOK, Update, Ends, Crons, sweepVars
<1>6. CASE SweepThrough
  BY <1>6, SweptTyping, SyncedTyping DEF TypeOK, SweepThrough, histVars
<1>7. CASE SweepWakes
  BY <1>7, SyncedTyping DEF TypeOK, SweepWakes, histVars
<1>8. CASE SweepWoken
  <2>1. status \in [Rows -> {"absent", "pending", "paused", "completed", "failed"}]
    BY DEF TypeOK
  <2> QED
    BY <1>8, <2>1, SweptTyping DEF TypeOK, SweepWoken, histVars
<1>9. CASE WakeFails
  BY <1>9 DEF TypeOK, WakeFails, Fault, rowVars, histVars
<1>10. CASE Collect
  BY <1>10 DEF TypeOK, Collect, Continue, CompletedRecurring, rowVars, histVars
<1>11. ASSUME NEW r \in Rows, Skip(r) PROVE TypeOK'
  BY <1>11 DEF TypeOK, Skip, Continue, Fault, rowVars, histVars
<1>12. ASSUME NEW r \in Rows, NEW n \in Rows, InsertNext(r, n) PROVE TypeOK'
  BY <1>12 DEF TypeOK, InsertNext, IsNew, histVars
<1>13. CASE ClearLast
  BY <1>13 DEF TypeOK, ClearLast, Continue, Crons, histVars
<1>14. CASE ClearFails
  <2>1. msg[1] \in Series
    BY <1>14, RowIs DEF TypeOK, Loop, ClearFails
  <2> QED
    BY <1>14, <2>1 DEF TypeOK, ClearFails, Continue, Fault, rowVars
<1>15. CASE HostCrash
  <2>1. pc = "inserted" => msg[1] \in Series
    BY RowIs DEF TypeOK, Loop
  <2>2. torn' \subseteq Series
    BY <1>15, <2>1 DEF TypeOK, HostCrash
  <2>3. alive' \in BOOLEAN
    BY <1>15 DEF HostCrash
  <2>4. /\ pc' = "idle" /\ recurring' = {} /\ msg' = None /\ newId' = None
        /\ faults' = faults + 1
        /\ UNCHANGED <<status, recurrence, ack, ended, held>>
    BY <1>15 DEF HostCrash, Fault, rowVars
  <2> QED
    BY <2>2, <2>3, <2>4 DEF TypeOK
<1>16. CASE Start
  BY <1>16 DEF TypeOK, Start, rowVars, sweepVars, histVars
<1>17. CASE Crash
  <2>1. alive' \in BOOLEAN
    BY <1>17 DEF Crash
  <2>2. /\ faults' = faults + 1
        /\ UNCHANGED <<status, recurrence, ack, pc, recurring, msg, newId, ended, held, torn>>
    BY <1>17 DEF Crash, Fault, rowVars, sweepVars, histVars
  <2> QED
    BY <2>1, <2>2 DEF TypeOK
<1>18. ASSUME NEW r \in Rows, Take(r) \/ Finish(r) PROVE TypeOK'
  BY <1>18 DEF TypeOK, Take, Finish, rowVars, sweepVars, histVars
<1> QED
  BY <1>0, <1>1, <1>2, <1>3, <1>4, <1>5, <1>6, <1>7, <1>8, <1>9, <1>10, <1>11, <1>12,
     <1>13, <1>14, <1>15, <1>16, <1>17, <1>18 DEF Next, Command, Sweep, Container

-----------------------------------------------------------------------------
(* What does not bring a token or a claim into being keeps Safe.           *)
LEMMA Shrinks ==
    ASSUME Safe, UNCHANGED <<torn, msg, newId>>, pc' = "inserted" <=> pc = "inserted",
           \A r \in Rows : Token(r)' => Token(r),
           \A r \in Rows : (r \in Claims)' => r \in Claims
    PROVE  Safe'
<1>1. OneToken'
  BY DEF Safe, OneToken, Tokens
<1>2. NoOverlap'
  <2> SUFFICES ASSUME NEW s \in Series \ torn, NEW q \in Rows, NEW r \in Rows,
                      (q \in Claims)', (r \in Claims)', q[1] = s, r[1] = s
               PROVE  q = r
    BY DEF NoOverlap, Claims
  <2> QED
    BY DEF Safe, NoOverlap
<1>3. ClaimsAlone'
  <2> SUFFICES ASSUME NEW q \in Rows, NEW t \in Rows, (q \in Claims)', Token(t)',
                      q[1] = t[1], q[1] \notin torn
               PROVE  q = t \/ (pc' = "inserted" /\ t = msg' /\ q = newId')
    BY DEF ClaimsAlone
  <2> QED
    BY DEF Safe, ClaimsAlone
<1> QED
  BY <1>1, <1>2, <1>3 DEF Safe

(* A cancelled series stays without tokens.                                *)
LEMMA StaysCancelled ==
    ASSUME CancelFinal, UNCHANGED torn,
           \A s \in Series : ended'[s] = "cancelled" => ended[s] = "cancelled",
           \A r \in Rows : Token(r)' => Token(r)
    PROVE  CancelFinal'
BY DEF CancelFinal, Tokens

(* A recurrence that is kept keeps its series.                             *)
LEMMA StaysAlive ==
    ASSUME SeriesSurvives,
           \A s \in Series : /\ status'[SeriesId(s)] # "absent" => status[SeriesId(s)] # "absent"
                             /\ ended'[s] = "no" => ended[s] = "no",
           \A r \in Rows : recurrence[r] # "none" => recurrence'[r] # "none"
    PROVE  SeriesSurvives'
<1> SUFFICES ASSUME NEW s \in Series, status'[SeriesId(s)] # "absent", ended'[s] = "no"
             PROVE  \E r \in Rows : r[1] = s /\ recurrence'[r] # "none"
  BY DEF SeriesSurvives, Tokens, Token
<1>1. PICK r \in Tokens(s) : recurrence[r] # "none"
  BY DEF SeriesSurvives
<1> QED
  BY <1>1 DEF Tokens

-----------------------------------------------------------------------------
(* The sweep before the hook: a row is left alone, synced or given up.     *)

Swept == \A r \in Rows :
    \/ status'[r] = status[r]
    \/ status'[r] = "completed" /\ ack[r] = "completed"
    \/ status'[r] = "failed" /\ status[r] = "pending"

LEMMA InspectedStatus == TypeOK /\ Inspect(status) => Swept
<1> SUFFICES ASSUME TypeOK, Inspect(status) PROVE Swept
  OBVIOUS
<1>1. GivesUp(status) \/ status' = status
  BY DEF Inspect
<1> QED
  BY <1>1 DEF GivesUp, Swept

LEMMA InspectedSynced == TypeOK /\ Inspect(Synced) => Swept
<1> SUFFICES ASSUME TypeOK, Inspect(Synced), NEW r \in Rows
             PROVE  \/ status'[r] = status[r]
                    \/ status'[r] = "completed" /\ ack[r] = "completed"
                    \/ status'[r] = "failed" /\ status[r] = "pending"
  BY DEF Swept
<1>1. GivesUp(Synced) \/ status' = Synced
  BY DEF Inspect
<1>2. Synced[r] = IF ack[r] = "completed" THEN "completed" ELSE status[r]
  BY DEF Synced
<1>3. status'[r] = Synced[r] \/ (status'[r] = "failed" /\ Synced[r] = "pending")
  BY <1>1 DEF GivesUp
<1> QED
  BY <1>2, <1>3

LEMMA SweptKeeps ==
    ASSUME IInv, Swept, pc \in {"idle", "waking"}, pc' \notin {"parse", "inserted"},
           UNCHANGED <<recurrence, ack, recurring, msg, newId, ended, torn>>
    PROVE  Rest'
<1>1. \A r \in Rows : Token(r)' => Token(r)
  BY DEF IInv, Rest, Swept, Token, Live, Rooted
<1>2. Loop'
  BY DEF Loop
<1>3. Rooted'
  <2> SUFFICES ASSUME NEW r \in Rows
               PROVE  /\ status'[SeriesId(r[1])] = "absent" => status'[r] = "absent"
                      /\ status'[r] = "absent" => recurrence'[r] = "none" /\ ack'[r] = "none"
    BY DEF Rooted
  <2>1. SeriesId(r[1]) \in Rows
    BY RowIs, FirstIsRow
  <2>2. \A q \in Rows : status'[q] = "absent" <=> status[q] = "absent"
    <3>1. \A q \in Rows : status[q] = "absent" => ack[q] = "none"
      BY DEF IInv, Rest, Rooted
    <3> QED
      BY <3>1 DEF Swept
  <2> QED
    BY <2>1, <2>2 DEF IInv, Rest, Rooted
<1>4. Acked'
  <2> SUFFICES ASSUME NEW r \in Rows, status'[r] = "completed", recurrence'[r] # "none"
               PROVE  ack'[r] = "completed"
    BY DEF Acked, CompletedRecurring
  <2> QED
    BY DEF IInv, Rest, Acked, CompletedRecurring, Swept
<1>5. Safe'
  <2>1. \A r \in Rows : (r \in Claims)' => r \in Claims
    BY DEF Claims
  <2> QED
    BY <1>1, <2>1, Shrinks DEF IInv, Rest
<1>6. CancelFinal'
  BY <1>1, StaysCancelled DEF IInv, Rest
<1>7. SeriesSurvives'
  <2>1. \A s \in Series : status'[SeriesId(s)] # "absent" => status[SeriesId(s)] # "absent"
    BY FirstIsRow DEF IInv, Rest, Swept, Rooted
  <2> QED
    BY <2>1, StaysAlive DEF IInv, Rest
<1> QED
  BY <1>2, <1>3, <1>4, <1>5, <1>6, <1>7 DEF Rest

-----------------------------------------------------------------------------
(* Commands: rows that were completed are out of their reach.              *)

LEMMA CommandKeeps ==
    ASSUME IInv, HostFree, UNCHANGED <<ack, sweepVars, torn>>,
           \A r \in Rows : Token(r)' => Token(r),
           \A r \in Rows : status[r] \in {"absent", "completed", "failed"}
                              => status'[r] = status[r] /\ recurrence'[r] = recurrence[r],
           \A r \in Rows : status[r] \in {"pending", "paused"}
                              => /\ status'[r] # "absent"
                                 /\ (status'[r] = "completed" => recurrence'[r] = "none")
    PROVE  (Loop /\ Acked /\ Rooted /\ Safe)'
<1>0. \A r \in Rows : status[r] \in {"absent", "completed", "failed"} \/ status[r] \in {"pending", "paused"}
  BY DEF IInv, TypeOK
<1>1. Loop'
  <2>1. pc' = "parse" => recurring' \subseteq CompletedRecurring'
    <3> SUFFICES ASSUME pc = "parse", NEW r \in recurring
                 PROVE  r \in Rows /\ status'[r] = "completed" /\ recurrence'[r] # "none"
      BY DEF CompletedRecurring, sweepVars
    <3>1. r \in CompletedRecurring
      BY DEF IInv, Rest, Loop
    <3> QED
      BY <3>1 DEF CompletedRecurring
  <2>2. pc' # "inserted"
    BY DEF HostFree, sweepVars
  <2> QED
    BY <2>1, <2>2 DEF Loop
<1>2. Acked'
  <2> SUFFICES ASSUME NEW r \in Rows, status'[r] = "completed", recurrence'[r] # "none"
               PROVE  ack[r] = "completed"
    BY DEF Acked, CompletedRecurring
  <2>1. status[r] = "completed" /\ recurrence[r] # "none"
    BY <1>0
  <2> QED
    BY <2>1 DEF IInv, Rest, Acked, CompletedRecurring
<1>3. Rooted'
  <2>1. \A r \in Rows : status'[r] = "absent" <=> status[r] = "absent"
    BY <1>0
  <2> SUFFICES ASSUME NEW r \in Rows
               PROVE  /\ status'[SeriesId(r[1])] = "absent" => status'[r] = "absent"
                      /\ status'[r] = "absent" => recurrence'[r] = "none" /\ ack[r] = "none"
    BY DEF Rooted
  <2>2. SeriesId(r[1]) \in Rows
    BY RowIs, FirstIsRow
  <2> QED
    BY <2>1, <2>2 DEF IInv, Rest, Rooted
<1>4. Safe'
  <2>1. \A r \in Rows : (r \in Claims)' => r \in Claims
    BY DEF Claims
  <2> QED
    BY <2>1, Shrinks DEF IInv, Rest, sweepVars
<1> QED
  BY <1>1, <1>2, <1>3, <1>4

(* The rows a command hits are live rows of the series it names.           *)
LEMMA HitIsLive ==
    ASSUME NEW id \in Rows
    PROVE  \A r \in Matches(id) \cap Live :
              r \in Rows /\ r[1] = id[1] /\ status[r] \in {"pending", "paused"}
BY MatchesOneSeries DEF Live

LEMMA PauseKeeps ==
    ASSUME IInv, NEW id \in Rows, Pause(id) \/ Resume(id)
    PROVE  Rest'
<1>1. \A r \in Rows : \/ status'[r] = status[r]
                      \/ {status[r], status'[r]} = {"pending", "paused"}
  BY DEF Pause, Resume, Moved
<1>2. HostFree /\ UNCHANGED <<recurrence, ack, sweepVars, ended, torn>>
  BY DEF Pause, Resume
<1>3. \A r \in Rows : status[r] \in {"absent", "completed", "failed"} => status'[r] = status[r]
  BY <1>1
<1>4. \A r \in Rows : status[r] \in {"pending", "paused"} => status'[r] \in {"pending", "paused"}
  BY <1>1
<1>5. \A r \in Rows : Token(r)' => Token(r)
  BY <1>1, <1>2 DEF Token, Live
<1>6. (Loop /\ Acked /\ Rooted /\ Safe)'
  BY <1>2, <1>3, <1>4, <1>5, CommandKeeps
<1>7. CancelFinal'
  BY <1>2, <1>5, StaysCancelled DEF IInv, Rest
<1>8. SeriesSurvives'
  <2>1. \A s \in Series : status'[SeriesId(s)] # "absent" => status[SeriesId(s)] # "absent"
    BY <1>3, FirstIsRow
  <2> QED
    BY <1>2, <2>1, StaysAlive DEF IInv, Rest
<1> QED
  BY <1>6, <1>7, <1>8 DEF Rest

LEMMA CancelKeeps ==
    ASSUME IInv, NEW id \in Rows, Cancel(id)
    PROVE  Rest'
<1> DEFINE hit == Matches(id) \cap Live
<1>1. /\ \A r \in Rows : /\ r \in hit => status'[r] = "completed" /\ recurrence'[r] = "none"
                         /\ r \notin hit => status'[r] = status[r] /\ recurrence'[r] = recurrence[r]
      /\ Ends(id, hit, "cancelled")
      /\ HostFree /\ UNCHANGED <<ack, sweepVars, torn>>
  BY DEF Cancel, Moved
<1>2. \A r \in hit : r \in Rows /\ r[1] = id[1] /\ status[r] \in {"pending", "paused"}
  BY HitIsLive
<1>3. \A s \in Series : \/ ended'[s] = ended[s]
                        \/ s = id[1] /\ hit # {} /\ ended'[s] = "cancelled"
  BY <1>1 DEF Ends, IInv, TypeOK
<1>9. hit # {} => ended'[id[1]] = "cancelled"
  BY <1>1, RowIs DEF Ends, IInv, TypeOK
<1> HIDE DEF hit
<1>4. \A r \in Rows : Token(r)' => Token(r)
  BY <1>1 DEF Token, Live
<1>5. (Loop /\ Acked /\ Rooted /\ Safe)'
  BY <1>1, <1>2, <1>4, CommandKeeps
<1>6. CancelFinal'
  <2> SUFFICES ASSUME NEW s \in Series, s \notin torn, ended'[s] = "cancelled",
                      NEW t \in Rows, t[1] = s, Token(t)'
               PROVE  FALSE
    BY <1>1 DEF CancelFinal, Tokens
  <2>1. Token(t) /\ t \notin hit
    BY <1>1, <1>4 DEF Token, Live
  <2>2. CASE ended[s] = "cancelled"
    BY <2>1, <2>2 DEF IInv, Rest, CancelFinal, Tokens
  <2>3. CASE s = id[1] /\ hit # {}
    <3>1. PICK h \in hit : TRUE
      BY <2>3
    <3>2. h \in Tokens(s) /\ t \in Tokens(s)
      BY <1>2, <2>1, <2>3 DEF Tokens, Token, Live
    <3>3. h = t
      BY <1>1, <3>2 DEF IInv, Rest, Safe, OneToken, HostFree
    <3> QED
      BY <2>1, <3>3
  <2> QED
    BY <1>3, <2>2, <2>3
<1>7. SeriesSurvives'
  <2> SUFFICES ASSUME NEW s \in Series, status'[SeriesId(s)] # "absent", ended'[s] = "no"
               PROVE  \E r \in Rows : r[1] = s /\ recurrence'[r] # "none"
    BY DEF SeriesSurvives, Tokens, Token
  <2>1. ended[s] = "no" /\ (s = id[1] => hit = {})
    BY <1>3, <1>9
  <2>2. status[SeriesId(s)] # "absent"
    BY <1>1, <1>2, FirstIsRow
  <2>3. PICK r \in Tokens(s) : recurrence[r] # "none"
    BY <2>1, <2>2 DEF IInv, Rest, SeriesSurvives
  <2>4. r \in Rows /\ r[1] = s /\ r \notin hit
    BY <1>2, <2>1, <2>3 DEF Tokens
  <2> QED
    BY <1>1, <2>3, <2>4
<1> QED
  BY <1>5, <1>6, <1>7 DEF Rest

LEMMA UpdateKeeps ==
    ASSUME IInv, NEW id \in Rows, Update(id)
    PROVE  Rest'
<1> DEFINE hit == Matches(id) \cap Live
<1>1. PICK c \in Crons :
         /\ \A r \in Rows : /\ r \in hit => recurrence'[r] = c
                            /\ r \notin hit => recurrence'[r] = recurrence[r]
         /\ Ends(id, hit, IF c = "none" THEN "oneshot" ELSE "no")
         /\ HostFree /\ UNCHANGED <<status, ack, sweepVars, torn>>
  BY DEF Update
<1>2. \A r \in hit : r \in Rows /\ r[1] = id[1] /\ status[r] \in {"pending", "paused"}
  BY HitIsLive
<1>3. \A s \in Series : \/ ended'[s] = ended[s] /\ (s = id[1] => hit = {} \/ ended[s] = "cancelled")
                        \/ /\ s = id[1] /\ hit # {}
                           /\ ended'[s] = IF c = "none" THEN "oneshot" ELSE "no"
  BY <1>1 DEF Ends, IInv, TypeOK
<1> HIDE DEF hit
<1>4. \A r \in Rows : Token(r)' => Token(r)
  BY <1>1, <1>2 DEF Token, Live
<1>5. (Loop /\ Acked /\ Rooted /\ Safe)'
  BY <1>1, <1>2, <1>4, CommandKeeps
<1>6. CancelFinal'
  <2>1. \A s \in Series : ended'[s] = "cancelled" => ended[s] = "cancelled"
    BY <1>3
  <2> QED
    BY <1>1, <1>4, <2>1, StaysCancelled DEF IInv, Rest
<1>7. SeriesSurvives'
  <2> SUFFICES ASSUME NEW s \in Series, status'[SeriesId(s)] # "absent", ended'[s] = "no"
               PROVE  \E r \in Rows : r[1] = s /\ recurrence'[r] # "none"
    BY DEF SeriesSurvives, Tokens, Token
  <2>1. CASE ended[s] = "no" /\ (s = id[1] => hit = {} \/ ended[s] = "cancelled")
    <3>1. PICK r \in Tokens(s) : recurrence[r] # "none"
      BY <1>1, <2>1 DEF IInv, Rest, SeriesSurvives
    <3>2. r \in Rows /\ r[1] = s /\ r \notin hit
      BY <1>2, <2>1, <3>1 DEF Tokens
    <3> QED
      BY <1>1, <3>1, <3>2
  <2>2. CASE s = id[1] /\ hit # {} /\ c # "none"
    <3>1. PICK h \in hit : TRUE
      BY <2>2
    <3> QED
      BY <1>1, <1>2, <2>2, <3>1
  <2> QED
    BY <1>3, <2>1, <2>2
<1> QED
  BY <1>5, <1>6, <1>7 DEF Rest

\* a series nobody has scheduled has no tokens and no claims
LEMMA UnscheduledIsEmpty ==
    ASSUME IInv, NEW s \in Series, status[SeriesId(s)] = "absent"
    PROVE  \A r \in Rows : r[1] = s => ~Token(r) /\ r \notin Claims
<1> SUFFICES ASSUME NEW r \in Rows, r[1] = s PROVE ~Token(r) /\ r \notin Claims
  OBVIOUS
<1>1. status[r] = "absent" /\ recurrence[r] = "none" /\ ack[r] = "none"
  BY DEF IInv, Rest, Rooted
<1> QED
  BY <1>1 DEF Token, Live, Claims

LEMMA ScheduleKeeps ==
    ASSUME IInv, NEW s \in Series, Schedule(s)
    PROVE  Rest'
<1> DEFINE f == SeriesId(s)
<1>1. f \in Rows /\ f[1] = s
  BY FirstIsRow
<1>2. /\ HostFree /\ status[f] = "absent"
      /\ UNCHANGED <<ack, sweepVars, torn>>
      /\ status'[f] = "pending"
      /\ \A r \in Rows : r # f => status'[r] = status[r] /\ recurrence'[r] = recurrence[r]
      /\ ended'[s] = "no" => recurrence'[f] # "none"
      /\ ended'[s] # "cancelled"
      /\ \A q \in Series : q # s => ended'[q] = ended[q]
  BY <1>1 DEF Schedule, IInv, TypeOK
<1>3. \A r \in Rows : r[1] = s => ~Token(r) /\ r \notin Claims
  BY <1>2, UnscheduledIsEmpty
<1>4. \A r \in Rows : Token(r)' => Token(r) \/ r = f
  BY <1>2 DEF Token, Live
<1>10. recurrence[f] = "none"
  BY <1>1, <1>2 DEF IInv, Rest, Rooted
<1> HIDE DEF f
<1>5. Loop'
  <2>1. pc' = "parse" => recurring' \subseteq CompletedRecurring'
    <3> SUFFICES ASSUME pc = "parse", NEW r \in recurring
                 PROVE  r \in Rows /\ status'[r] = "completed" /\ recurrence'[r] # "none"
      BY <1>2 DEF CompletedRecurring, sweepVars
    <3>1. r \in CompletedRecurring
      BY DEF IInv, Rest, Loop
    <3> QED
      BY <1>2, <3>1 DEF CompletedRecurring
  <2> QED
    BY <1>2, <2>1 DEF Loop, HostFree, sweepVars
<1>6. Acked'
  BY <1>1, <1>2 DEF Acked, CompletedRecurring, IInv, Rest
<1>7. Rooted'
  <2> SUFFICES ASSUME NEW r \in Rows
               PROVE  /\ status'[SeriesId(r[1])] = "absent" => status'[r] = "absent"
                      /\ status'[r] = "absent" => recurrence'[r] = "none" /\ ack'[r] = "none"
    BY DEF Rooted
  <2>1. CASE r[1] = s
    <3>1. SeriesId(r[1]) = f
      BY <2>1 DEF f
    <3> QED
      BY <1>1, <1>2, <3>1 DEF IInv, Rest, Rooted
  <2>2. CASE r[1] # s
    <3>1. SeriesId(r[1]) # f /\ r # f /\ SeriesId(r[1]) \in Rows
      BY <1>1, <2>2, RowIs, FirstIsRow
    <3> QED
      BY <1>2, <3>1 DEF IInv, Rest, Rooted
  <2> QED
    BY <2>1, <2>2
<1>8. Safe'
  <2>1. OneToken'
    <3> SUFFICES ASSUME NEW q \in Rows, NEW r \in Rows, q[1] = r[1], q[1] \in Series \ torn,
                        Token(q)', Token(r)'
                 PROVE  q = r
      BY <1>2 DEF OneToken, Tokens
    <3>1. CASE q[1] = s
      BY <1>3, <1>4, <3>1
    <3>2. CASE q[1] # s
      <4>1. q \in Tokens(q[1]) /\ r \in Tokens(q[1])
        BY <1>1, <1>4, <3>2 DEF Tokens
      <4> QED
        BY <1>2, <4>1 DEF IInv, Rest, Safe, OneToken, HostFree
    <3> QED
      BY <3>1, <3>2
  <2>2. NoOverlap'
    BY <1>2 DEF NoOverlap, Claims, IInv, Rest, Safe
  <2>3. ClaimsAlone'
    <3> SUFFICES ASSUME NEW q \in Rows, NEW t \in Rows, (q \in Claims)', Token(t)',
                        q[1] = t[1], q[1] \notin torn
                 PROVE  q = t
      BY <1>2 DEF ClaimsAlone
    <3>1. q \in Claims
      BY <1>2 DEF Claims
    <3>2. t # f
      BY <1>1, <1>3, <3>1
    <3> QED
      BY <1>2, <1>4, <3>1, <3>2 DEF IInv, Rest, Safe, ClaimsAlone, HostFree
  <2> QED
    BY <2>1, <2>2, <2>3 DEF Safe
<1>9. CancelFinal'
  <2> SUFFICES ASSUME NEW q \in Series, q \notin torn, ended'[q] = "cancelled",
                      NEW t \in Rows, t[1] = q, Token(t)'
               PROVE  FALSE
    BY <1>2 DEF CancelFinal, Tokens
  <2>1. q # s /\ ended[q] = "cancelled"
    BY <1>2
  <2>2. Token(t)
    BY <1>1, <1>4, <2>1
  <2> QED
    BY <2>1, <2>2 DEF IInv, Rest, CancelFinal, Tokens
<1>11. SeriesSurvives'
  <2> SUFFICES ASSUME NEW q \in Series, status'[SeriesId(q)] # "absent", ended'[q] = "no"
               PROVE  \E r \in Rows : r[1] = q /\ recurrence'[r] # "none"
    BY DEF SeriesSurvives, Tokens, Token
  <2>1. CASE q = s
    BY <1>1, <1>2, <2>1
  <2>2. CASE q # s
    <3>1. SeriesId(q) # f /\ SeriesId(q) \in Rows
      BY <1>1, <2>2, FirstIsRow
    <3>2. PICK r \in Tokens(q) : recurrence[r] # "none"
      BY <1>2, <2>2, <3>1 DEF IInv, Rest, SeriesSurvives
    <3>3. r \in Rows /\ r[1] = q /\ r # f
      BY <1>10, <3>2 DEF Tokens
    <3> QED
      BY <1>2, <3>2, <3>3
  <2> QED
    BY <2>1, <2>2
<1> QED
  BY <1>5, <1>6, <1>7, <1>8, <1>9, <1>11 DEF Rest

-----------------------------------------------------------------------------
(* The sweep's loop and the container.                                     *)

LEMMA InsertKeeps ==
    ASSUME IInv, NEW r \in Rows, NEW n \in Rows, InsertNext(r, n)
    PROVE  Rest'
<1>1. /\ pc = "parse" /\ pc' = "inserted" /\ r \in recurring /\ recurrence[r] = "cron"
      /\ n[1] = r[1] /\ status[n] = "absent"
      /\ msg' = r /\ newId' = n
      /\ UNCHANGED <<ack, recurring, ended, torn>>
      /\ status'[n] = "pending" /\ recurrence'[n] = "cron"
      /\ \A q \in Rows : q # n => status'[q] = status[q] /\ recurrence'[q] = recurrence[q]
  BY DEF InsertNext, IsNew, IInv, TypeOK, histVars
<1>2. status[r] = "completed" /\ ack[r] = "completed" /\ Token(r)
  <2>1. r \in CompletedRecurring
    BY <1>1 DEF IInv, Rest, Loop
  <2> QED
    BY <2>1 DEF CompletedRecurring, Token, IInv, Rest, Acked
<1>3. recurrence[n] = "none" /\ ack[n] = "none"
  BY <1>1 DEF IInv, Rest, Rooted
<1>4. \A q \in Rows : Token(q)' => Token(q) \/ q = n
  BY <1>1 DEF Token, Live
<1>5. \A q \in Rows : q[1] = r[1] /\ r[1] \notin torn /\ Token(q) => q = r
  <2> SUFFICES ASSUME NEW q \in Rows, q[1] = r[1], r[1] \notin torn, Token(q)
               PROVE  q = r
    OBVIOUS
  <2>1. q \in Tokens(r[1]) /\ r \in Tokens(r[1]) /\ r[1] \in Series
    BY <1>2, RowIs DEF Tokens
  <2> QED
    BY <1>1, <2>1 DEF IInv, Rest, Safe, OneToken
<1>6. \A q \in Rows : q[1] = r[1] /\ r[1] \notin torn => q \notin Claims
  BY <1>1, <1>2 DEF IInv, Rest, Safe, ClaimsAlone, Claims
<1>7. Loop'
  <2>1. \A q \in recurring : q \in Rows /\ status[q] = "completed" /\ recurrence[q] # "none"
    BY <1>1 DEF IInv, Rest, Loop, CompletedRecurring
  <2> QED
    BY <1>1, <2>1 DEF Loop, CompletedRecurring
<1>8. Acked'
  BY <1>1 DEF Acked, CompletedRecurring, IInv, Rest
<1>9. Rooted'
  <2> SUFFICES ASSUME NEW q \in Rows
               PROVE  /\ status'[SeriesId(q[1])] = "absent" => status'[q] = "absent"
                      /\ status'[q] = "absent" => recurrence'[q] = "none" /\ ack'[q] = "none"
    BY DEF Rooted
  <2>1. SeriesId(q[1]) \in Rows
    BY RowIs, FirstIsRow
  <2>2. status[SeriesId(r[1])] # "absent"
    BY <1>2 DEF IInv, Rest, Rooted
  <2> QED
    BY <1>1, <2>1, <2>2 DEF IInv, Rest, Rooted
<1>10. Safe'
  <2>1. OneToken'
    <3> SUFFICES ASSUME NEW q \in Rows, NEW t \in Rows, q[1] = t[1], q[1] \in Series \ torn,
                        Token(q)', Token(t)'
                 PROVE  q = t \/ {q, t} = {r, n}
      BY <1>1 DEF OneToken, Tokens
    <3>1. CASE q[1] = r[1]
      BY <1>1, <1>4, <1>5, <3>1
    <3>2. CASE q[1] # r[1]
      <4>1. q \in Tokens(q[1]) /\ t \in Tokens(q[1])
        BY <1>1, <1>4, <3>2 DEF Tokens
      <4> QED
        BY <1>1, <4>1 DEF IInv, Rest, Safe, OneToken
    <3> QED
      BY <3>1, <3>2
  <2>2. NoOverlap'
    BY <1>1 DEF NoOverlap, Claims, IInv, Rest, Safe
  <2>3. ClaimsAlone'
    <3> SUFFICES ASSUME NEW q \in Rows, NEW t \in Rows, (q \in Claims)', Token(t)',
                        q[1] = t[1], q[1] \notin torn
                 PROVE  q = t
      BY <1>1 DEF ClaimsAlone
    <3>1. q \in Claims
      BY <1>1 DEF Claims
    <3>2. q[1] # r[1] /\ t # n
      BY <1>1, <1>6, <3>1
    <3> QED
      BY <1>1, <1>4, <3>1, <3>2 DEF IInv, Rest, Safe, ClaimsAlone
  <2> QED
    BY <2>1, <2>2, <2>3 DEF Safe
<1>11. CancelFinal'
  <2> SUFFICES ASSUME NEW s \in Series, s \notin torn, ended[s] = "cancelled",
                      NEW t \in Rows, t[1] = s, Token(t)'
               PROVE  FALSE
    BY <1>1 DEF CancelFinal, Tokens
  <2>1. Tokens(s) = {}
    BY DEF IInv, Rest, CancelFinal
  <2>2. s # r[1]
    BY <1>2, <2>1 DEF Tokens
  <2> QED
    BY <1>1, <1>4, <2>1, <2>2 DEF Tokens
<1>12. SeriesSurvives'
  <2>1. \A s \in Series : status'[SeriesId(s)] # "absent" => status[SeriesId(s)] # "absent"
    <3>1. status[SeriesId(r[1])] # "absent"
      BY <1>2 DEF IInv, Rest, Rooted
    <3>2. \A s \in Series : SeriesId(s) = n => s = r[1]
      BY <1>1, FirstIsRow
    <3> QED
      BY <1>1, <3>1, <3>2, FirstIsRow
  <2>2. \A q \in Rows : recurrence[q] # "none" => recurrence'[q] # "none"
    BY <1>1, <1>3
  <2> QED
    BY <1>1, <2>1, <2>2, StaysAlive DEF IInv, Rest
<1> QED
  BY <1>7, <1>8, <1>9, <1>10, <1>11, <1>12 DEF Rest

LEMMA ClearKeeps ==
    ASSUME IInv, ClearLast
    PROVE  Rest'
<1>1. /\ pc = "inserted" /\ pc' # "inserted"
      /\ msg \in Rows /\ newId \in Rows /\ newId[1] = msg[1] /\ msg # newId
      /\ recurrence[newId] # "none" /\ status[msg] = "completed"
  BY DEF ClearLast, Continue, IInv, Rest, Loop, CompletedRecurring
<1>2. /\ UNCHANGED <<status, ack, ended, torn>>
      /\ recurrence'[msg] = "none"
      /\ \A q \in Rows : q # msg => recurrence'[q] = recurrence[q]
      /\ recurring' = recurring \ {msg}
  BY <1>1 DEF ClearLast, Continue, histVars, IInv, TypeOK
<1>3. \A q \in Rows : Token(q)' => Token(q) /\ q # msg
  BY <1>1, <1>2 DEF Token, Live
<1>4. Loop'
  <2>1. recurring' \subseteq CompletedRecurring'
    <3> SUFFICES ASSUME NEW r \in recurring, r # msg
                 PROVE  r \in Rows /\ status'[r] = "completed" /\ recurrence'[r] # "none"
      BY <1>2 DEF CompletedRecurring
    <3>1. r \in CompletedRecurring
      BY <1>1 DEF IInv, Rest, Loop
    <3> QED
      BY <1>2, <3>1 DEF CompletedRecurring
  <2> QED
    BY <1>1, <2>1 DEF Loop
<1>5. Acked'
  BY <1>2 DEF Acked, CompletedRecurring, IInv, Rest
<1>6. Rooted'
  <2> SUFFICES ASSUME NEW q \in Rows
               PROVE  /\ status'[SeriesId(q[1])] = "absent" => status'[q] = "absent"
                      /\ status'[q] = "absent" => recurrence'[q] = "none" /\ ack'[q] = "none"
    BY DEF Rooted
  <2> QED
    BY <1>2 DEF IInv, Rest, Rooted
<1>7. Safe'
  <2>1. OneToken'
    <3> SUFFICES ASSUME NEW q \in Rows, NEW t \in Rows, q[1] = t[1], q[1] \in Series \ torn,
                        Token(q)', Token(t)'
                 PROVE  q = t
      BY <1>2 DEF OneToken, Tokens
    <3>1. q \in Tokens(q[1]) /\ t \in Tokens(q[1]) /\ q # msg /\ t # msg
      BY <1>3 DEF Tokens
    <3> QED
      BY <3>1 DEF IInv, Rest, Safe, OneToken
  <2>2. NoOverlap'
    BY <1>2 DEF NoOverlap, Claims, IInv, Rest, Safe
  <2>3. ClaimsAlone'
    <3> SUFFICES ASSUME NEW q \in Rows, NEW t \in Rows, (q \in Claims)', Token(t)',
                        q[1] = t[1], q[1] \notin torn
                 PROVE  q = t
      BY <1>2 DEF ClaimsAlone
    <3>1. q \in Claims /\ Token(t) /\ t # msg
      BY <1>2, <1>3 DEF Claims
    <3> QED
      BY <3>1 DEF IInv, Rest, Safe, ClaimsAlone
  <2> QED
    BY <2>1, <2>2, <2>3 DEF Safe
<1>8. CancelFinal'
  BY <1>2, <1>3, StaysCancelled DEF IInv, Rest
<1>9. SeriesSurvives'
  <2> SUFFICES ASSUME NEW s \in Series, status[SeriesId(s)] # "absent", ended[s] = "no"
               PROVE  \E r \in Rows : r[1] = s /\ recurrence'[r] # "none"
    BY <1>2 DEF SeriesSurvives, Tokens, Token
  <2>1. PICK r \in Tokens(s) : recurrence[r] # "none"
    BY DEF IInv, Rest, SeriesSurvives
  <2>2. CASE r = msg
    BY <1>1, <1>2, <2>1, <2>2 DEF Tokens
  <2>3. CASE r # msg
    BY <1>2, <2>1, <2>3 DEF Tokens
  <2> QED
    BY <2>2, <2>3
<1> QED
  BY <1>4, <1>5, <1>6, <1>7, <1>8, <1>9 DEF Rest

(* Where the clearing is missed the series is marked as torn, and nothing  *)
(* is claimed of it any more.                                              *)
LEMMA TornKeeps ==
    ASSUME IInv, ClearFails \/ HostCrash
    PROVE  Rest'
<1>1. /\ UNCHANGED <<status, recurrence, ack, ended>>
      /\ torn \subseteq torn'
      /\ pc' # "inserted"
      /\ pc' = "parse" => recurring' \subseteq recurring /\ pc = "inserted"
      /\ pc = "inserted" => msg[1] \in torn'
  BY DEF ClearFails, HostCrash, Continue, rowVars
<1>2. \A q \in Rows : Token(q)' <=> Token(q)
  BY <1>1 DEF Token, Live
<1>3. pc = "inserted" => newId[1] = msg[1]
  BY DEF IInv, Rest, Loop
<1>4. Loop'
  BY <1>1 DEF Loop, CompletedRecurring, IInv, Rest
<1>5. Acked' /\ Rooted'
  BY <1>1 DEF Acked, Rooted, CompletedRecurring, IInv, Rest
<1>6. OneToken'
  <2> SUFFICES ASSUME NEW q \in Rows, NEW t \in Rows, q[1] = t[1], q[1] \in Series \ torn',
                      Token(q)', Token(t)'
               PROVE  q = t
    BY DEF OneToken, Tokens
  <2>1. q \in Tokens(q[1]) /\ t \in Tokens(q[1]) /\ q[1] \notin torn
    BY <1>1, <1>2 DEF Tokens
  <2>2. q = t \/ (pc = "inserted" /\ {q, t} = {msg, newId})
    BY <2>1 DEF IInv, Rest, Safe, OneToken
  <2> QED
    BY <1>1, <1>3, <2>2
<1>7. NoOverlap'
  BY <1>1 DEF NoOverlap, Claims, IInv, Rest, Safe
<1>8. ClaimsAlone'
  <2> SUFFICES ASSUME NEW q \in Rows, NEW t \in Rows, (q \in Claims)', Token(t)',
                      q[1] = t[1], q[1] \notin torn'
               PROVE  q = t
    BY DEF ClaimsAlone
  <2>1. q \in Claims /\ Token(t) /\ q[1] \notin torn
    BY <1>1, <1>2 DEF Claims
  <2>2. q = t \/ (pc = "inserted" /\ t = msg /\ q = newId)
    BY <2>1 DEF IInv, Rest, Safe, ClaimsAlone
  <2> QED
    BY <1>1, <1>3, <2>2
<1>9. CancelFinal'
  BY <1>1, <1>2 DEF CancelFinal, Tokens, IInv, Rest
<1>10. SeriesSurvives'
  BY <1>1, StaysAlive DEF IInv, Rest
<1> QED
  BY <1>4, <1>5, <1>6, <1>7, <1>8, <1>9, <1>10 DEF Rest, Safe

LEMMA LoopStepKeeps ==
    ASSUME IInv,
           \/ WakeFails
           \/ Collect
           \/ \E r \in Rows : Skip(r)
    PROVE  Rest'
<1>1. /\ UNCHANGED <<status, recurrence, ack, ended, torn, msg, newId>>
      /\ pc # "inserted" /\ pc' # "inserted"
      /\ pc' = "parse" => recurring' \subseteq CompletedRecurring
  BY DEF WakeFails, Collect, Skip, Continue, rowVars, histVars, IInv, Rest, Loop
<1>2. \A r \in Rows : Token(r)' => Token(r)
  BY <1>1 DEF Token, Live
<1>3. Loop'
  BY <1>1 DEF Loop, CompletedRecurring
<1>4. Acked' /\ Rooted'
  BY <1>1 DEF Acked, Rooted, CompletedRecurring, IInv, Rest
<1>5. Safe'
  <2>1. \A r \in Rows : (r \in Claims)' => r \in Claims
    BY <1>1 DEF Claims
  <2> QED
    BY <1>1, <1>2, <2>1, Shrinks DEF IInv, Rest
<1>6. CancelFinal'
  BY <1>1, <1>2, StaysCancelled DEF IInv, Rest
<1>7. SeriesSurvives'
  BY <1>1, StaysAlive DEF IInv, Rest
<1> QED
  BY <1>3, <1>4, <1>5, <1>6, <1>7 DEF Rest

LEMMA SweepKeeps ==
    ASSUME IInv, SweepThrough \/ SweepWakes \/ SweepWoken
    PROVE  Rest'
<1>1. /\ pc \in {"idle", "waking"} /\ pc' \in {"hook", "waking"}
      /\ UNCHANGED <<recurrence, ack, recurring, msg, newId, ended, torn>>
  BY DEF SweepThrough, SweepWakes, SweepWoken, histVars
<1>2. Swept
  <2>1. CASE SweepThrough
    BY <2>1, InspectedSynced DEF SweepThrough, IInv
  <2>2. CASE SweepWakes
    <3> SUFFICES ASSUME NEW r \in Rows
                 PROVE  status'[r] = status[r] \/ (status'[r] = "completed" /\ ack[r] = "completed")
      BY DEF Swept
    <3>1. status' = Synced
      BY <2>2 DEF SweepWakes
    <3>2. status'[r] = IF ack[r] = "completed" THEN "completed" ELSE status[r]
      BY <3>1 DEF Synced
    <3> QED
      BY <3>2
  <2>3. CASE SweepWoken
    BY <2>3, InspectedStatus DEF SweepWoken, IInv
  <2> QED
    BY <2>1, <2>2, <2>3
<1> QED
  BY <1>1, <1>2, SweptKeeps

(* A container only changes the acks.                                      *)
LEMMA AckKeeps ==
    ASSUME IInv, UNCHANGED <<rowVars, sweepVars, ended, torn>>,
           \A r \in Rows : /\ ack[r] = "completed" => ack'[r] = "completed"
                           /\ status[r] = "absent" => ack'[r] = "none",
           Safe'
    PROVE  Rest'
<1>1. Loop'
  BY DEF Loop, CompletedRecurring, rowVars, sweepVars, IInv, Rest
<1>2. Acked'
  <2> SUFFICES ASSUME NEW r \in Rows, status[r] = "completed", recurrence[r] # "none"
               PROVE  ack'[r] = "completed"
    BY DEF Acked, CompletedRecurring, rowVars
  <2> QED
    BY DEF Acked, CompletedRecurring, IInv, Rest
<1>3. Rooted'
  <2> SUFFICES ASSUME NEW r \in Rows
               PROVE  /\ status[SeriesId(r[1])] = "absent" => status[r] = "absent"
                      /\ status[r] = "absent" => recurrence[r] = "none" /\ ack'[r] = "none"
    BY DEF Rooted, rowVars
  <2> QED
    BY DEF Rooted, IInv, Rest
<1>4. \A r \in Rows : Token(r)' => Token(r)
  BY DEF Token, Live, rowVars
<1>5. CancelFinal'
  BY <1>4, StaysCancelled DEF IInv, Rest
<1>6. SeriesSurvives'
  BY StaysAlive DEF IInv, Rest, rowVars
<1> QED
  BY <1>1, <1>2, <1>3, <1>5, <1>6 DEF Rest

LEMMA TakeKeeps ==
    ASSUME IInv, NEW r \in Rows, Take(r)
    PROVE  Rest'
<1>1. /\ status[r] = "pending" /\ ack[r] = "none"
      /\ ack'[r] = "processing"
      /\ \A q \in Rows : q # r => ack'[q] = ack[q]
      /\ UNCHANGED <<rowVars, sweepVars, ended, torn>>
  BY DEF Take, Takeable, histVars, IInv, TypeOK
<1>2. Token(r) /\ r[1] \in Series
  BY <1>1, RowIs DEF Token, Live
<1>3. \A q \in Rows : (q \in Claims)' => q \in Claims \/ q = r
  BY <1>1 DEF Claims
<1>4. \A q \in Rows : Token(q)' <=> Token(q)
  BY <1>1 DEF Token, Live, rowVars
<1>5. pc = "inserted" => status[msg] = "completed"
  BY DEF IInv, Rest, Loop, CompletedRecurring
<1>6. \A q \in Rows : q[1] = r[1] /\ r[1] \notin torn => q \notin Claims
  <2> SUFFICES ASSUME NEW q \in Rows, q[1] = r[1], r[1] \notin torn, q \in Claims
               PROVE  FALSE
    OBVIOUS
  <2>1. q = r \/ (pc = "inserted" /\ r = msg)
    BY <1>2 DEF IInv, Rest, Safe, ClaimsAlone
  <2> QED
    BY <1>1, <1>5, <2>1 DEF Claims
<1>7. OneToken'
  <2> SUFFICES ASSUME NEW q \in Rows, NEW t \in Rows, q[1] = t[1], q[1] \in Series \ torn,
                      Token(q)', Token(t)'
               PROVE  q = t \/ (pc = "inserted" /\ {q, t} = {msg, newId})
    BY <1>1 DEF OneToken, Tokens, sweepVars
  <2>1. q \in Tokens(q[1]) /\ t \in Tokens(q[1])
    BY <1>4 DEF Tokens
  <2> QED
    BY <2>1 DEF IInv, Rest, Safe, OneToken
<1>8. NoOverlap'
  <2> SUFFICES ASSUME NEW q \in Rows, NEW t \in Rows, q[1] = t[1], q[1] \in Series \ torn,
                      (q \in Claims)', (t \in Claims)'
               PROVE  q = t
    BY <1>1 DEF NoOverlap, Claims
  <2> QED
    BY <1>3, <1>6 DEF IInv, Rest, Safe, NoOverlap
<1>9. ClaimsAlone'
  <2> SUFFICES ASSUME NEW q \in Rows, NEW t \in Rows, (q \in Claims)', Token(t)',
                      q[1] = t[1], q[1] \notin torn
               PROVE  q = t \/ (pc = "inserted" /\ t = msg /\ q = newId)
    BY <1>1 DEF ClaimsAlone, sweepVars
  <2>1. CASE q \in Claims
    BY <1>4, <2>1 DEF IInv, Rest, Safe, ClaimsAlone
  <2>2. CASE q = r
    <3>1. t \in Tokens(r[1]) /\ r \in Tokens(r[1])
      BY <1>2, <1>4, <2>2 DEF Tokens
    <3>2. r = t \/ (pc = "inserted" /\ {r, t} = {msg, newId})
      BY <1>2, <2>2, <3>1 DEF IInv, Rest, Safe, OneToken
    <3>3. pc = "inserted" => r # msg
      BY <1>1, <1>5
    <3> QED
      BY <2>2, <3>2, <3>3
  <2> QED
    BY <1>3, <2>1, <2>2
<1>10. Safe'
  BY <1>7, <1>8, <1>9 DEF Safe
<1>11. \A q \in Rows : /\ ack[q] = "completed" => ack'[q] = "completed"
                       /\ status[q] = "absent" => ack'[q] = "none"
  BY <1>1 DEF IInv, Rest, Rooted
<1> QED
  BY <1>1, <1>10, <1>11, AckKeeps

LEMMA ContainerKeeps ==
    ASSUME IInv, Start \/ Crash \/ \E r \in Rows : Finish(r)
    PROVE  Rest'
<1>1. UNCHANGED <<rowVars, sweepVars, ended, torn>>
  BY DEF Start, Crash, Finish, histVars
<1>2. \A q \in Rows : \/ ack'[q] = ack[q]
                      \/ ack[q] = "processing" /\ ack'[q] # "processing"
  BY DEF Start, Crash, Finish, Claims, histVars, IInv, TypeOK
<1>3. \A q \in Rows : (q \in Claims)' => q \in Claims
  BY <1>2 DEF Claims
<1>4. \A q \in Rows : Token(q)' => Token(q)
  BY <1>1 DEF Token, Live, rowVars
<1>5. Safe'
  BY <1>1, <1>3, <1>4, Shrinks DEF IInv, Rest, sweepVars
<1>6. \A q \in Rows : /\ ack[q] = "completed" => ack'[q] = "completed"
                      /\ status[q] = "absent" => ack'[q] = "none"
  BY <1>2 DEF IInv, Rest, Rooted
<1> QED
  BY <1>1, <1>5, <1>6, AckKeeps

-----------------------------------------------------------------------------
LEMMA RestInit == Init => Rest
<1> SUFFICES ASSUME Init PROVE Rest
  OBVIOUS
<1>1. \A r \in Rows : status[r] = "absent" /\ recurrence[r] = "none" /\ ack[r] = "none"
  BY DEF Init
<1>2. pc = "idle"
  BY DEF Init
<1>3. \A r \in Rows : ~Token(r) /\ r \notin Claims
  BY <1>1 DEF Token, Live, Claims
<1>4. Loop /\ Acked /\ Rooted
  BY <1>1, <1>2 DEF Loop, Acked, Rooted, CompletedRecurring
<1>5. Safe /\ CancelFinal
  BY <1>3 DEF Safe, OneToken, NoOverlap, ClaimsAlone, CancelFinal, Tokens, Claims
<1>6. SeriesSurvives
  BY <1>1, FirstIsRow DEF SeriesSurvives
<1> QED
  BY <1>4, <1>5, <1>6 DEF Rest

LEMMA RestNext == IInv /\ [Next]_vars => Rest'
<1> SUFFICES ASSUME IInv, [Next]_vars PROVE Rest'
  OBVIOUS
<1>1. CASE UNCHANGED vars
  <2>1. UNCHANGED <<rowVars, sweepVars, ended, torn, ack>>
    BY <1>1 DEF vars, rowVars, sweepVars
  <2>2. \A q \in Rows : (Token(q)' => Token(q)) /\ ((q \in Claims)' => q \in Claims)
    BY <2>1 DEF Token, Live, Claims, rowVars
  <2>3. Safe'
    BY <2>1, <2>2, Shrinks DEF IInv, Rest, sweepVars
  <2> QED
    BY <2>1, <2>3, AckKeeps DEF IInv, Rest, Rooted
<1>2. CASE Command
  BY <1>2, ScheduleKeeps, CancelKeeps, PauseKeeps, UpdateKeeps DEF Command
<1>3. CASE Sweep
  BY <1>3, SweepKeeps, LoopStepKeeps, InsertKeeps, ClearKeeps, TornKeeps DEF Sweep
<1>4. CASE Container
  BY <1>4, TakeKeeps, ContainerKeeps DEF Container
<1> QED
  BY <1>1, <1>2, <1>3, <1>4 DEF Next

LEMMA Inductive == Spec => []IInv
<1>1. Init => IInv
  BY TypeInit, RestInit DEF IInv
<1>2. IInv /\ [Next]_vars => IInv'
  BY TypeNext, RestNext DEF IInv, Rest
<1> QED
  BY <1>1, <1>2, PTL DEF Spec

-----------------------------------------------------------------------------
(* The tables, the sweep's position and the history keep their types.      *)
THEOREM TypeCorrect == Spec => []TypeOK
<1>1. IInv => TypeOK
  BY DEF IInv
<1> QED
  BY <1>1, Inductive, PTL

(* A series never forks, whatever the agent commands between two awaits of *)
(* the sweep, unless the clearing of an occurrence was cut off.            *)
THEOREM NeverForks == Spec => []OneToken
<1>1. IInv => OneToken
  BY DEF IInv, Rest, Safe
<1> QED
  BY <1>1, Inductive, PTL

(* No crash, failing statement or command loses a series that was neither  *)
(* cancelled nor made one-shot.                                            *)
THEOREM NeverLost == Spec => []SeriesSurvives
<1>1. IInv => SeriesSurvives
  BY DEF IInv, Rest
<1> QED
  BY <1>1, Inductive, PTL

(* A cancelled series is not revived by the ack of the occurrence that was *)
(* running.                                                                *)
THEOREM CancelledForGood == Spec => []CancelFinal
<1>1. IInv => CancelFinal
  BY DEF IInv, Rest
<1> QED
  BY <1>1, Inductive, PTL

(* No two occurrences of a series run at once.                             *)
THEOREM RunsAlone == Spec => []NoOverlap
<1>1. IInv => NoOverlap
  BY DEF IInv, Rest, Safe
<1> QED
  BY <1>1, Inductive, PTL
=============================================================================
