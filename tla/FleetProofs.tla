----------------------------- MODULE FleetProofs -----------------------------
(***************************************************************************)
(* The fleet, for any number of workers, channels and sessions of the      *)
(* master: what the actions promise, however they interleave; and the      *)
(* installer, for any machine, skip list and number of retries.            *)
(*                                                                         *)
(* The fleet takes two arguments.  Channels: a channel is in one place     *)
(* only - in the making, wired to one worker, or being deleted - and what  *)
(* cleanup means to delete had been made when Discord was asked.  Names:   *)
(* an action that meets no other on its name finds the group of that name  *)
(* as it left it.                                                          *)
(***************************************************************************)
EXTENDS Operations, FiniteSetTheorems, TLAPS

Runs(s) == job[s] # None
At(s, await) == Runs(s) /\ job[s].at = await

(* What each action carries through its awaits *)
WellFormed(s) ==
    Runs(s) =>
        /\ job[s].cmd \in {"create", "resume"} => job[s].at \in {"resolve", "channel"}
        /\ job[s].cmd = "switch" => job[s].at = "resolve"
        /\ job[s].cmd = "destroy" => job[s].at = "deleting"
        /\ job[s].cmd = "cleanup" => job[s].at \in {"listing", "listed", "reaping"}
        /\ job[s].cmd # "cleanup" => job[s].name # None
        /\ job[s].cmd = "create" /\ job[s].at = "resolve" => job[s].group = None
        /\ job[s].cmd \in {"create", "resume", "switch"} => job[s].backend # None
        /\ job[s].cmd \in {"resume", "switch", "destroy"} => job[s].group # None
        /\ job[s].at = "channel" => job[s].group # None
        /\ job[s].at = "deleting" => job[s].chan # None
        /\ job[s].at \notin {"channel", "deleting"} => job[s].chan = None

(* Channels *)

\* wirings are of recorded channels, one worker each
WiredOnce ==
    /\ \A g \in Folders : workerWired[g] \subseteq recorded
    /\ \A g \in Folders : workerWired[g] # {} => group[g] # None
    /\ \A g, o \in Folders : g # o => workerWired[g] \cap workerWired[o] = {}
    /\ \A h \in recorded : channel[h] # "unused"

\* a channel in the making is its job's alone
Making(s) ==
    At(s, "channel") /\ job[s].chan # None =>
        /\ channel[job[s].chan] # "unused"
        /\ job[s].chan \notin recorded
        /\ \A t \in Callers \ {s} :
              /\ At(t, "channel") => job[t].chan # job[s].chan
              /\ At(t, "deleting") => job[s].chan \notin job[t].todo \cup {job[t].chan}

\* one that is being deleted is wired no more, and the next ones to no other worker
Deleting(s) ==
    At(s, "deleting") =>
        /\ \A g \in Folders : job[s].chan \notin workerWired[g]
        /\ \A g \in Folders \ {job[s].group} : job[s].todo \cap workerWired[g] = {}
        /\ \A h \in job[s].todo \cup {job[s].chan} : channel[h] # "unused"

\* cleanup knows of the channels in the making that it might delete
Listing(s) ==
    At(s, "listed") \/ At(s, "reaping") =>
        /\ \A h \in job[s].todo : channel[h] # "unused"
        /\ At(s, "reaping") =>
              /\ \A g \in Folders : job[s].todo \cap workerWired[g] \subseteq job[s].young
              /\ \A t \in Callers : At(t, "channel") /\ job[t].chan \in job[s].todo
                                        => job[t].chan \in job[s].young

Leftovers ==
    \A h \in recorded \ left : \/ \E g \in Folders : h \in workerWired[g]
                               \/ \E s \in Callers : At(s, "deleting") /\ job[s].chan = h

ChannelsInv ==
    /\ WiredOnce
    /\ \A s \in Callers : Making(s) /\ Deleting(s) /\ Listing(s)
    /\ Leftovers

(* Names *)

\* ids are given once, and a group is known by one name
Identified ==
    /\ \A g \in Folders : group[g] # None => g \in issued
    /\ \A g, o \in Folders : group[g] # None /\ group[o] # None =>
          (group[g].name = group[o].name => g = o)
    /\ \A s \in Callers : Runs(s) /\ job[s].group # None =>
          /\ job[s].group \in issued
          /\ group[job[s].group] # None => group[job[s].group].name = job[s].name

\* actions that overlap on a name are on record
Raced ==
    \A s, t \in Callers : s # t /\ Runs(s) /\ Runs(t) =>
        (job[s].name = job[t].name /\ job[s].name # None => job[s].name \in raced)

\* an action alone on its name finds the group as it left it
Alone(s) ==
    Runs(s) /\ job[s].group # None /\ job[s].name \notin raced =>
        /\ group[job[s].group] # None
        /\ At(s, "channel") => /\ group[job[s].group].status = "active"
                               /\ workerWired[job[s].group] = {}

Single ==
    \A g \in Folders : group[g] # None /\ group[g].name \notin raced =>
        \A h, i \in workerWired[g] : h = i

Leads(n) ==
    n \notin raced /\ toWorker[n] # None =>
        /\ group[toWorker[n]] # None
        /\ group[toWorker[n]].name = n
        /\ group[toWorker[n]].status = "active"

Promised(n) ==
    n \notin raced /\ promised[n] # None => toWorker[n] = promised[n] /\ promised[n] \in toMaster

NamesInv ==
    /\ Identified
    /\ Raced
    /\ \A s \in Callers : Alone(s)
    /\ Single
    /\ \A n \in Names : Leads(n) /\ Promised(n)

FleetInv ==
    /\ Fl!TypeOK
    /\ \A s \in Callers : WellFormed(s)
    /\ ChannelsInv
    /\ NamesInv
-----------------------------------------------------------------------------

(* Types: every action stores a well-formed job or row. *)
LEMMA FleetTyped ==
    ASSUME FleetDistinct, FleetInv, [Fl!Next]_fleetVars
    PROVE  Fl!TypeOK'
<1> USE DEF FleetDistinct, Fl!TypeOK, Fl!Jobs, Fl!GroupRows, Fl!AllBackends, Fl!tables, Runs, At,
           WellFormed
<1>1. Fl!TypeOK /\ \A c \in Callers : WellFormed(c)
  BY DEF FleetInv, ChannelsInv, NamesInv
<1>2. CASE \E s \in Callers, n \in Names, b \in Fl!AllBackends : Fl!Create(s, n, b)
  <2>1. PICK s \in Callers, n \in Names, b \in Fl!AllBackends : Fl!Create(s, n, b)
    BY <1>2
  <2> DEFINE j == [Fl!Idle EXCEPT !.name = n, !.backend = b]
  <2>2. j \in Fl!Jobs
    BY <1>1, <2>1 DEF Fl!Idle, Fl!Create
  <2>3. job' \in [Callers -> Fl!Jobs \cup {None}]
    <3>1. job' = [job EXCEPT ![s] = j]
      BY <2>1 DEF Fl!Create
    <3> HIDE DEF j
    <3>2. QED
      BY <1>1, <2>2, <3>1
  <2> HIDE DEF j
  <2>4. QED
    BY <1>1, <2>1, <2>3 DEF Fl!Create, Fl!Command, Fl!Meets
<1>3. CASE \E s \in Callers, n \in Names, b \in Fl!AllBackends, g \in Folders : Fl!CreateFresh(s, n, b, g)
  <2>1. PICK s \in Callers, n \in Names, b \in Fl!AllBackends, g \in Folders : Fl!CreateFresh(s, n, b, g)
    BY <1>3
  <2> DEFINE j == [Fl!Idle EXCEPT !.name = n, !.backend = b]
  <2>2. j \in Fl!Jobs
    BY <1>1, <2>1 DEF Fl!Idle, Fl!CreateFresh
  <2>3. job' \in [Callers -> Fl!Jobs \cup {None}]
    <3>1. job' = [job EXCEPT ![s] = j] \/ job' = job
      BY <2>1 DEF Fl!CreateFresh
    <3> HIDE DEF j
    <3>2. QED
      BY <1>1, <2>2, <3>1
  <2> HIDE DEF j
  <2>4. QED
    BY <1>1, <2>1, <2>3 DEF Fl!CreateFresh, Fl!Command, Fl!Meets, Fl!Holds
<1>4. CASE \E s \in Callers, n \in Names, b \in Fl!AllBackends, g \in Folders : Fl!CreateResumes(s, n, b, g)
  <2>1. PICK s \in Callers, n \in Names, b \in Fl!AllBackends, g \in Folders : Fl!CreateResumes(s, n, b, g)
    BY <1>4
  <2> DEFINE j == [Fl!Idle EXCEPT !.cmd = "resume", !.name = n, !.group = g, !.backend = b]
  <2>2. j \in Fl!Jobs
    BY <1>1, <2>1 DEF Fl!Idle, Fl!CreateResumes
  <2>3. job' \in [Callers -> Fl!Jobs \cup {None}]
    <3>1. job' = [job EXCEPT ![s] = j]
      BY <2>1 DEF Fl!CreateResumes
    <3> HIDE DEF j
    <3>2. QED
      BY <1>1, <2>2, <3>1
  <2> HIDE DEF j
  <2>4. QED
    BY <1>1, <2>1, <2>3 DEF Fl!CreateResumes, Fl!Command, Fl!Meets, Fl!Holds
<1>5. CASE \E s \in Callers, n \in Names, b \in Fl!AllBackends, g \in Folders : Fl!Switch(s, n, b, g)
  <2>1. PICK s \in Callers, n \in Names, b \in Fl!AllBackends, g \in Folders : Fl!Switch(s, n, b, g)
    BY <1>5
  <2> DEFINE j == [Fl!Idle EXCEPT !.cmd = "switch", !.name = n, !.group = g, !.backend = b]
  <2>2. j \in Fl!Jobs
    BY <1>1, <2>1 DEF Fl!Idle, Fl!Switch
  <2>3. job' \in [Callers -> Fl!Jobs \cup {None}]
    <3>1. job' = [job EXCEPT ![s] = j]
      BY <2>1 DEF Fl!Switch
    <3> HIDE DEF j
    <3>2. QED
      BY <1>1, <2>2, <3>1
  <2> HIDE DEF j
  <2>4. QED
    BY <1>1, <2>1, <2>3 DEF Fl!Switch, Fl!Command, Fl!Meets, Fl!Holds
<1>6. CASE \E s \in Callers, n \in Names, g \in Folders : Fl!Destroy(s, n, g)
  BY SMTT(20), <1>1, <1>6 DEF Fl!Destroy, Fl!Command, Fl!Meets, Fl!Archive, Fl!Holds
<1>7. CASE \E s \in Callers, n \in Names, g \in Folders, h \in Chans : Fl!DestroyWith(s, n, g, h)
  <2>1. PICK s \in Callers, n \in Names, g \in Folders, h \in Chans : Fl!DestroyWith(s, n, g, h)
    BY <1>7
  <2> DEFINE j == [Fl!Idle EXCEPT !.cmd = "destroy", !.at = "deleting", !.name = n, !.group = g,
                         !.chan = h, !.todo = workerWired[g] \ {h}]
  <2>2. j \in Fl!Jobs
    BY <1>1, <2>1 DEF Fl!Idle, Fl!DestroyWith
  <2>3. job' \in [Callers -> Fl!Jobs \cup {None}]
    <3>1. job' = [job EXCEPT ![s] = j]
      BY <2>1 DEF Fl!DestroyWith
    <3> HIDE DEF j
    <3>2. QED
      BY <1>1, <2>2, <3>1
  <2> HIDE DEF j
  <2>4. QED
    BY <1>1, <2>1, <2>3 DEF Fl!DestroyWith, Fl!Command, Fl!Meets, Fl!Holds
<1>8. CASE \E s \in Callers : Fl!NoModel(s)
  BY SMTT(20), <1>1, <1>8 DEF Fl!NoModel
<1>9. CASE \E s \in Callers : Fl!MakeFails(s)
  BY SMTT(20), <1>1, <1>9 DEF Fl!MakeFails
<1>10. CASE \E s \in Callers : Fl!ResumeFails(s)
  BY SMTT(20), <1>1, <1>10 DEF Fl!ResumeFails
<1>11. CASE \E s \in Callers : Fl!ResumeKeeps(s)
  BY SMTT(20), <1>1, <1>11 DEF Fl!ResumeKeeps, Fl!Updated, Fl!Destinations
<1>12. CASE \E s \in Callers : Fl!ResumeProvisions(s)
  BY SMTT(20), <1>1, <1>12 DEF Fl!ResumeProvisions, Fl!Updated
<1>13. CASE \E s \in Callers : Fl!Switched(s)
  BY SMTT(20), <1>1, <1>13 DEF Fl!Switched
<1>14. CASE \E s \in Callers : Fl!Provisioned(s)
  BY SMTT(20), <1>1, <1>14 DEF Fl!Provisioned, Fl!Introduce, Fl!Destinations
<1>15. CASE \E s \in Callers : Fl!NotProvisioned(s)
  BY SMTT(20), <1>1, <1>15 DEF Fl!NotProvisioned, Fl!Introduce, Fl!Destinations
<1>16. CASE \E s \in Callers : Fl!DiscordDeletes(s)
  BY SMTT(20), <1>1, <1>16 DEF Fl!DiscordDeletes
<1>17. CASE \E s \in Callers : Fl!DeletedLast(s)
  BY SMTT(20), <1>1, <1>17 DEF Fl!DeletedLast, Fl!Archive
<1>18. CASE \E s \in Callers : Fl!Cleanup(s)
  <2>1. PICK s \in Callers : Fl!Cleanup(s)
    BY <1>18
  <2> DEFINE j == [Fl!Idle EXCEPT !.cmd = "cleanup", !.at = "listing"]
  <2>2. j \in Fl!Jobs
    BY <1>1, <2>1 DEF Fl!Idle, Fl!Cleanup
  <2>3. job' \in [Callers -> Fl!Jobs \cup {None}]
    <3>1. job' = [job EXCEPT ![s] = j]
      BY <2>1 DEF Fl!Cleanup
    <3> HIDE DEF j
    <3>2. QED
      BY <1>1, <2>2, <3>1
  <2> HIDE DEF j
  <2>4. QED
    BY <1>1, <2>1, <2>3 DEF Fl!Cleanup
<1>19. CASE \E s \in Callers : Fl!DiscordLists(s)
  <2>1. PICK s \in Callers : Fl!DiscordLists(s)
    BY <1>19
  <2> DEFINE j == [job[s] EXCEPT !.at = "listed", !.todo = {h \in Chans : channel[h] = "live"}]
  <2>2. j \in Fl!Jobs
    <3>1. job[s] \in Fl!Jobs
      BY <1>1, <2>1 DEF Fl!DiscordLists
    <3>2. {h \in Chans : channel[h] = "live"} \in SUBSET Chans
      OBVIOUS
    <3>3. QED  BY <3>1, <3>2
  <2>3. job' \in [Callers -> Fl!Jobs \cup {None}]
    <3>1. job' = [job EXCEPT ![s] = j]
      BY <2>1 DEF Fl!DiscordLists
    <3> HIDE DEF j
    <3>2. QED
      BY <1>1, <2>2, <3>1
  <2> HIDE DEF j
  <2>4. QED
    BY <1>1, <2>1, <2>3 DEF Fl!DiscordLists
<1>20. CASE \E s \in Callers : Fl!ListRead(s)
  <2>1. PICK s \in Callers : Fl!ListRead(s)
    BY <1>20
  <2> DEFINE j == [job[s] EXCEPT !.at = "reaping", !.todo = @ \ recorded,
                        !.young = Fl!InTheMaking \ {None}]
  <2>2. j \in Fl!Jobs
    <3>1. job[s] \in Fl!Jobs
      BY <1>1, <2>1 DEF Fl!ListRead
    <3>2. Fl!InTheMaking \ {None} \in SUBSET Chans
      BY <1>1 DEF Fl!InTheMaking
    <3>3. job[s].todo \ recorded \in SUBSET Chans
      BY <3>1
    <3>4. QED  BY <3>1, <3>2, <3>3
  <2>3. job' \in [Callers -> Fl!Jobs \cup {None}]
    <3>1. job' = [job EXCEPT ![s] = j]
      BY <2>1 DEF Fl!ListRead
    <3> HIDE DEF j
    <3>2. QED
      BY <1>1, <2>2, <3>1
  <2> HIDE DEF j
  <2>4. QED
    BY <1>1, <2>1, <2>3 DEF Fl!ListRead
<1>21. CASE \E s \in Callers : Fl!CleanupEnds(s)
  BY SMTT(20), <1>1, <1>21 DEF Fl!CleanupEnds
<1>22. CASE \E s \in Callers, g \in Folders : Fl!Make(s, g)
  BY SMTT(20), <1>1, <1>22 DEF Fl!Make, Fl!Taken, Fl!Holds
<1>23. CASE \E s \in Callers, h \in Chans : Fl!DiscordMakes(s, h)
  BY SMTT(20), <1>1, <1>23 DEF Fl!DiscordMakes
<1>24. CASE \E s \in Callers, h \in Chans : Fl!DeletedNext(s, h)
  BY SMTT(20), <1>1, <1>24 DEF Fl!DeletedNext
<1>25. CASE \E s \in Callers, h \in Chans : Fl!Reap(s, h)
  BY SMTT(20), <1>1, <1>25 DEF Fl!Reap
<1>26. CASE Fl!Restart
  BY SMTT(20), <1>1, <1>26 DEF Fl!Restart
<1>27. CASE UNCHANGED fleetVars
  BY SMTT(20), <1>1, <1>27 DEF fleetVars
<1>28. CASE \E s \in Callers : Fl!DeleteBlocked(s)
  BY SMTT(20), <1>1, <1>28 DEF Fl!DeleteBlocked, Fl!Turn
<1>29. CASE \E s \in Callers, n \in Names, g \in Folders : Fl!PurgeFails(s, n, g)
  BY SMTT(20), <1>1, <1>29 DEF Fl!PurgeFails, Fl!Command, Fl!Meets, Fl!Holds
<1>30. QED
  BY <1>2, <1>3, <1>4, <1>5, <1>6, <1>7, <1>8, <1>9, <1>10, <1>11, <1>12, <1>13, <1>14,
         <1>15, <1>16, <1>17, <1>18, <1>19, <1>20, <1>21, <1>22, <1>23, <1>24, <1>25,
         <1>26, <1>27, <1>28, <1>29 DEF Fl!Next

(* What a job carries fits the await it is in. *)
LEMMA FleetFormed ==
    ASSUME FleetDistinct, FleetInv, [Fl!Next]_fleetVars
    PROVE  \A c \in Callers : WellFormed(c)'
<1> USE DEF FleetDistinct, Fl!TypeOK, Fl!Jobs, Fl!GroupRows, Fl!AllBackends, Fl!tables, Runs, At,
           WellFormed
<1>1. Fl!TypeOK /\ \A c \in Callers : WellFormed(c)
  BY DEF FleetInv, ChannelsInv, NamesInv
<1>2. CASE \E s \in Callers, n \in Names, b \in Fl!AllBackends : Fl!Create(s, n, b)
  BY <1>1, <1>2 DEF Fl!Create, Fl!Command, Fl!Meets, Fl!Idle
<1>3. CASE \E s \in Callers, n \in Names, b \in Fl!AllBackends, g \in Folders : Fl!CreateFresh(s, n, b, g)
  BY <1>1, <1>3 DEF Fl!CreateFresh, Fl!Command, Fl!Meets, Fl!Idle, Fl!Holds
<1>4. CASE \E s \in Callers, n \in Names, b \in Fl!AllBackends, g \in Folders : Fl!CreateResumes(s, n, b, g)
  BY <1>1, <1>4 DEF Fl!CreateResumes, Fl!Command, Fl!Meets, Fl!Idle, Fl!Holds
<1>5. CASE \E s \in Callers, n \in Names, b \in Fl!AllBackends, g \in Folders : Fl!Switch(s, n, b, g)
  BY <1>1, <1>5 DEF Fl!Switch, Fl!Command, Fl!Meets, Fl!Idle, Fl!Holds
<1>6. CASE \E s \in Callers, n \in Names, g \in Folders : Fl!Destroy(s, n, g)
  BY <1>1, <1>6 DEF Fl!Destroy, Fl!Command, Fl!Meets, Fl!Archive, Fl!Holds
<1>7. CASE \E s \in Callers, n \in Names, g \in Folders, h \in Chans : Fl!DestroyWith(s, n, g, h)
  BY <1>1, <1>7 DEF Fl!DestroyWith, Fl!Command, Fl!Meets, Fl!Idle, Fl!Holds
<1>8. CASE \E s \in Callers : Fl!NoModel(s)
  BY <1>1, <1>8 DEF Fl!NoModel
<1>9. CASE \E s \in Callers : Fl!MakeFails(s)
  BY <1>1, <1>9 DEF Fl!MakeFails
<1>10. CASE \E s \in Callers : Fl!ResumeFails(s)
  BY <1>1, <1>10 DEF Fl!ResumeFails
<1>11. CASE \E s \in Callers : Fl!ResumeKeeps(s)
  BY <1>1, <1>11 DEF Fl!ResumeKeeps, Fl!Updated, Fl!Destinations
<1>12. CASE \E s \in Callers : Fl!ResumeProvisions(s)
  BY <1>1, <1>12 DEF Fl!ResumeProvisions, Fl!Updated
<1>13. CASE \E s \in Callers : Fl!Switched(s)
  BY <1>1, <1>13 DEF Fl!Switched
<1>14. CASE \E s \in Callers : Fl!Provisioned(s)
  BY <1>1, <1>14 DEF Fl!Provisioned, Fl!Introduce, Fl!Destinations
<1>15. CASE \E s \in Callers : Fl!NotProvisioned(s)
  BY <1>1, <1>15 DEF Fl!NotProvisioned, Fl!Introduce, Fl!Destinations
<1>16. CASE \E s \in Callers : Fl!DiscordDeletes(s)
  BY <1>1, <1>16 DEF Fl!DiscordDeletes
<1>17. CASE \E s \in Callers : Fl!DeletedLast(s)
  BY <1>1, <1>17 DEF Fl!DeletedLast, Fl!Archive
<1>18. CASE \E s \in Callers : Fl!Cleanup(s)
  BY <1>1, <1>18 DEF Fl!Cleanup, Fl!Idle
<1>19. CASE \E s \in Callers : Fl!DiscordLists(s)
  BY <1>1, <1>19 DEF Fl!DiscordLists
<1>20. CASE \E s \in Callers : Fl!ListRead(s)
  BY <1>1, <1>20 DEF Fl!ListRead, Fl!InTheMaking
<1>21. CASE \E s \in Callers : Fl!CleanupEnds(s)
  BY <1>1, <1>21 DEF Fl!CleanupEnds
<1>22. CASE \E s \in Callers, g \in Folders : Fl!Make(s, g)
  BY <1>1, <1>22 DEF Fl!Make, Fl!Taken, Fl!Holds
<1>23. CASE \E s \in Callers, h \in Chans : Fl!DiscordMakes(s, h)
  BY <1>1, <1>23 DEF Fl!DiscordMakes
<1>24. CASE \E s \in Callers, h \in Chans : Fl!DeletedNext(s, h)
  BY <1>1, <1>24 DEF Fl!DeletedNext
<1>25. CASE \E s \in Callers, h \in Chans : Fl!Reap(s, h)
  BY <1>1, <1>25 DEF Fl!Reap
<1>26. CASE Fl!Restart
  BY <1>1, <1>26 DEF Fl!Restart
<1>27. CASE UNCHANGED fleetVars
  BY <1>1, <1>27 DEF fleetVars
<1>28. CASE \E s \in Callers : Fl!DeleteBlocked(s)
  BY <1>1, <1>28 DEF Fl!DeleteBlocked, Fl!Turn
<1>29. CASE \E s \in Callers, n \in Names, g \in Folders : Fl!PurgeFails(s, n, g)
  BY <1>1, <1>29 DEF Fl!PurgeFails, Fl!Command, Fl!Meets, Fl!Holds
<1>30. QED
  BY <1>2, <1>3, <1>4, <1>5, <1>6, <1>7, <1>8, <1>9, <1>10, <1>11, <1>12, <1>13, <1>14,
         <1>15, <1>16, <1>17, <1>18, <1>19, <1>20, <1>21, <1>22, <1>23, <1>24, <1>25,
         <1>26, <1>27, <1>28, <1>29 DEF Fl!Next

(* Channels: no step puts one in two places, or in none that cleanup knows of. *)
LEMMA ChannelsKeep ==
    ASSUME FleetDistinct, FleetInv, [Fl!Next]_fleetVars
    PROVE  ChannelsInv'
<1> USE DEF FleetDistinct, Fl!TypeOK, Fl!Jobs, Fl!GroupRows, Fl!AllBackends, Fl!tables, Runs, At,
           WellFormed, ChannelsInv, WiredOnce, Making, Deleting, Listing, Leftovers
<1>1. Fl!TypeOK /\ ChannelsInv /\ \A c \in Callers : WellFormed(c)
  BY DEF FleetInv, ChannelsInv, NamesInv
<1>2. CASE \E s \in Callers, n \in Names, b \in Fl!AllBackends : Fl!Create(s, n, b)
  BY <1>1, <1>2 DEF Fl!Create, Fl!Command, Fl!Meets, Fl!Idle
<1>3. CASE \E s \in Callers, n \in Names, b \in Fl!AllBackends, g \in Folders : Fl!CreateFresh(s, n, b, g)
  BY <1>1, <1>3 DEF Fl!CreateFresh, Fl!Command, Fl!Meets, Fl!Idle, Fl!Holds
<1>4. CASE \E s \in Callers, n \in Names, b \in Fl!AllBackends, g \in Folders : Fl!CreateResumes(s, n, b, g)
  BY <1>1, <1>4 DEF Fl!CreateResumes, Fl!Command, Fl!Meets, Fl!Idle, Fl!Holds
<1>5. CASE \E s \in Callers, n \in Names, b \in Fl!AllBackends, g \in Folders : Fl!Switch(s, n, b, g)
  BY <1>1, <1>5 DEF Fl!Switch, Fl!Command, Fl!Meets, Fl!Idle, Fl!Holds
<1>6. CASE \E s \in Callers, n \in Names, g \in Folders : Fl!Destroy(s, n, g)
  BY <1>1, <1>6 DEF Fl!Destroy, Fl!Command, Fl!Meets, Fl!Archive, Fl!Holds
<1>7. CASE \E s \in Callers, n \in Names, g \in Folders, h \in Chans : Fl!DestroyWith(s, n, g, h)
  <2>1. PICK s \in Callers, n \in Names, g \in Folders, h \in Chans : Fl!DestroyWith(s, n, g, h)
    BY <1>7
  <2>2. WiredOnce'
    BY <1>1, <2>1 DEF Fl!DestroyWith, Fl!Command, Fl!Meets, Fl!Idle, Fl!Holds
  <2>3. \A c \in Callers : Making(c)'
    BY <1>1, <2>1 DEF Fl!DestroyWith, Fl!Command, Fl!Meets, Fl!Idle, Fl!Holds
  <2>4. \A c \in Callers : Deleting(c)' /\ Listing(c)'
    BY <1>1, <2>1 DEF Fl!DestroyWith, Fl!Command, Fl!Meets, Fl!Idle, Fl!Holds
  <2>5. Leftovers'
    <3>1. /\ job[s] = None
          /\ At(s, "deleting")' /\ job'[s].chan = h
          /\ \A c \in Callers \ {s} : job'[c] = job[c]
      <4> DEFINE j == [Fl!Idle EXCEPT !.cmd = "destroy", !.at = "deleting", !.name = n,
                                      !.group = g, !.chan = h,
                                      !.todo = workerWired[g] \ {h}]
      <4>1. j \in Fl!Jobs /\ j.at = "deleting" /\ j.chan = h
        BY <1>1, <2>1 DEF Fl!Idle
      <4>2. job[s] = None /\ job' = [job EXCEPT ![s] = j]
        BY <2>1 DEF Fl!DestroyWith, Fl!Command
      <4> HIDE DEF j
      <4>3. QED
        BY <1>1, <2>1, <4>1, <4>2
    <3>2. /\ \A o \in Folders : workerWired[o] \ {h} \subseteq workerWired'[o]
          /\ recorded' = recorded /\ left' = left
      BY <1>1, <2>1 DEF Fl!DestroyWith
    <3>3. ASSUME NEW i \in recorded \ left, i # h, NEW o \in Folders, i \in workerWired[o]
          PROVE  i \in workerWired'[o]
      BY <3>2, <3>3
    <3>4. ASSUME NEW c \in Callers, At(c, "deleting")
          PROVE  At(c, "deleting")' /\ job'[c].chan = job[c].chan
      BY <3>1, <3>4
    <3>5. QED
      BY <1>1, <3>1, <3>2, <3>3, <3>4
  <2>6. QED
    BY <2>2, <2>3, <2>4, <2>5
<1>8. CASE \E s \in Callers : Fl!NoModel(s)
  BY <1>1, <1>8 DEF Fl!NoModel
<1>9. CASE \E s \in Callers : Fl!MakeFails(s)
  BY <1>1, <1>9 DEF Fl!MakeFails
<1>10. CASE \E s \in Callers : Fl!ResumeFails(s)
  BY <1>1, <1>10 DEF Fl!ResumeFails
<1>11. CASE \E s \in Callers : Fl!ResumeKeeps(s)
  BY <1>1, <1>11 DEF Fl!ResumeKeeps, Fl!Updated, Fl!Destinations
<1>12. CASE \E s \in Callers : Fl!ResumeProvisions(s)
  BY <1>1, <1>12 DEF Fl!ResumeProvisions, Fl!Updated
<1>13. CASE \E s \in Callers : Fl!Switched(s)
  BY <1>1, <1>13 DEF Fl!Switched
<1>14. CASE \E s \in Callers : Fl!Provisioned(s)
  BY <1>1, <1>14 DEF Fl!Provisioned, Fl!Introduce, Fl!Destinations
<1>15. CASE \E s \in Callers : Fl!NotProvisioned(s)
  BY <1>1, <1>15 DEF Fl!NotProvisioned, Fl!Introduce, Fl!Destinations
<1>16. CASE \E s \in Callers : Fl!DiscordDeletes(s)
  BY <1>1, <1>16 DEF Fl!DiscordDeletes
<1>17. CASE \E s \in Callers : Fl!DeletedLast(s)
  BY <1>1, <1>17 DEF Fl!DeletedLast, Fl!Archive
<1>18. CASE \E s \in Callers : Fl!Cleanup(s)
  BY <1>1, <1>18 DEF Fl!Cleanup, Fl!Idle
<1>19. CASE \E s \in Callers : Fl!DiscordLists(s)
  <2>1. PICK s \in Callers : Fl!DiscordLists(s)
    BY <1>19
  <2>2. WiredOnce' /\ Leftovers'
    BY <1>1, <2>1 DEF Fl!DiscordLists
  <2>3. \A c \in Callers : Making(c)' /\ Deleting(c)'
    BY <1>1, <2>1 DEF Fl!DiscordLists
  <2>4. \A c \in Callers : Listing(c)'
    BY <1>1, <2>1 DEF Fl!DiscordLists
  <2>5. QED
    BY <2>2, <2>3, <2>4
<1>20. CASE \E s \in Callers : Fl!ListRead(s)
  BY <1>1, <1>20 DEF Fl!ListRead, Fl!InTheMaking
<1>21. CASE \E s \in Callers : Fl!CleanupEnds(s)
  BY <1>1, <1>21 DEF Fl!CleanupEnds
<1>22. CASE \E s \in Callers, g \in Folders : Fl!Make(s, g)
  BY <1>1, <1>22 DEF Fl!Make, Fl!Taken, Fl!Holds
<1>23. CASE \E s \in Callers, h \in Chans : Fl!DiscordMakes(s, h)
  BY <1>1, <1>23 DEF Fl!DiscordMakes
<1>24. CASE \E s \in Callers, h \in Chans : Fl!DeletedNext(s, h)
  BY <1>1, <1>24 DEF Fl!DeletedNext
<1>25. CASE \E s \in Callers, h \in Chans : Fl!Reap(s, h)
  BY <1>1, <1>25 DEF Fl!Reap
<1>26. CASE Fl!Restart
  BY <1>1, <1>26 DEF Fl!Restart
<1>27. CASE UNCHANGED fleetVars
  BY <1>1, <1>27 DEF fleetVars
<1>28. CASE \E s \in Callers : Fl!DeleteBlocked(s)
  BY <1>1, <1>28 DEF Fl!DeleteBlocked, Fl!Turn
<1>29. CASE \E s \in Callers, n \in Names, g \in Folders : Fl!PurgeFails(s, n, g)
  BY <1>1, <1>29 DEF Fl!PurgeFails, Fl!Command, Fl!Meets, Fl!Holds
<1>30. QED
  BY <1>2, <1>3, <1>4, <1>5, <1>6, <1>7, <1>8, <1>9, <1>10, <1>11, <1>12, <1>13, <1>14,
         <1>15, <1>16, <1>17, <1>18, <1>19, <1>20, <1>21, <1>22, <1>23, <1>24, <1>25,
         <1>26, <1>27, <1>28, <1>29 DEF Fl!Next

(* Names: a step of an action that meets no other finds its group unchanged. *)
LEMMA NamesKeep ==
    ASSUME FleetDistinct, FleetInv, [Fl!Next]_fleetVars
    PROVE  NamesInv'
<1> USE DEF FleetDistinct, Fl!TypeOK, Fl!Jobs, Fl!GroupRows, Fl!AllBackends, Fl!tables, Runs, At,
           WellFormed, NamesInv, WiredOnce, Identified, Raced, Alone, Single, Leads,
           Promised
<1>1. Fl!TypeOK /\ NamesInv /\ WiredOnce /\ \A c \in Callers : WellFormed(c)
  BY DEF FleetInv, ChannelsInv, NamesInv
<1>2. CASE \E s \in Callers, n \in Names, b \in Fl!AllBackends : Fl!Create(s, n, b)
  BY <1>1, <1>2 DEF Fl!Create, Fl!Command, Fl!Meets, Fl!Idle
<1>3. CASE \E s \in Callers, n \in Names, b \in Fl!AllBackends, g \in Folders : Fl!CreateFresh(s, n, b, g)
  BY <1>1, <1>3 DEF Fl!CreateFresh, Fl!Command, Fl!Meets, Fl!Idle, Fl!Holds
<1>4. CASE \E s \in Callers, n \in Names, b \in Fl!AllBackends, g \in Folders : Fl!CreateResumes(s, n, b, g)
  BY <1>1, <1>4 DEF Fl!CreateResumes, Fl!Command, Fl!Meets, Fl!Idle, Fl!Holds
<1>5. CASE \E s \in Callers, n \in Names, b \in Fl!AllBackends, g \in Folders : Fl!Switch(s, n, b, g)
  BY <1>1, <1>5 DEF Fl!Switch, Fl!Command, Fl!Meets, Fl!Idle, Fl!Holds
<1>6. CASE \E s \in Callers, n \in Names, g \in Folders : Fl!Destroy(s, n, g)
  BY <1>1, <1>6 DEF Fl!Destroy, Fl!Command, Fl!Meets, Fl!Archive, Fl!Holds
<1>7. CASE \E s \in Callers, n \in Names, g \in Folders, h \in Chans : Fl!DestroyWith(s, n, g, h)
  BY <1>1, <1>7 DEF Fl!DestroyWith, Fl!Command, Fl!Meets, Fl!Idle, Fl!Holds
<1>8. CASE \E s \in Callers : Fl!NoModel(s)
  BY <1>1, <1>8 DEF Fl!NoModel
<1>9. CASE \E s \in Callers : Fl!MakeFails(s)
  BY <1>1, <1>9 DEF Fl!MakeFails
<1>10. CASE \E s \in Callers : Fl!ResumeFails(s)
  BY <1>1, <1>10 DEF Fl!ResumeFails
<1>11. CASE \E s \in Callers : Fl!ResumeKeeps(s)
  <2>1. PICK s \in Callers : Fl!ResumeKeeps(s)
    BY <1>11
  <2>2. Identified' /\ Raced'
    BY <1>1, <2>1 DEF Fl!ResumeKeeps, Fl!Updated, Fl!Destinations
  <2>3. \A c \in Callers : Alone(c)'
    BY <1>1, <2>1 DEF Fl!ResumeKeeps, Fl!Updated, Fl!Destinations
  <2>4. Single'
    BY <1>1, <2>1 DEF Fl!ResumeKeeps, Fl!Updated, Fl!Destinations
  <2>5. ASSUME NEW m \in Names
        PROVE  Leads(m)'
    <3> DEFINE g == job[s].group
               n == job[s].name
    <3>1. /\ g \in Folders /\ n \in Names
          /\ group[g] # None => group[g].name = n
      BY <1>1, <2>1 DEF Fl!ResumeKeeps
    <3>2. /\ \A o \in Folders \ {g} : group'[o] = group[o]
          /\ group[g] # None => /\ group'[g] # None
                                /\ group'[g].name = n
                                /\ group'[g].status = "active"
      <4>1. /\ job[s].backend \in Fl!AllBackends
            /\ group[g] # None => group[g] \in Fl!GroupRows
        BY <1>1, <2>1, <3>1 DEF Fl!ResumeKeeps
      <4>2. group[g] # None =>
              [group[g] EXCEPT !.status = "active", !.backend = job[s].backend] \in Fl!GroupRows
        BY <4>1
      <4>3. \A o \in Folders \ {g} : group'[o] = group[o]
        BY <1>1, <2>1, <3>1 DEF Fl!ResumeKeeps, Fl!Updated
      <4>4. group[g] # None =>
              group'[g] = [group[g] EXCEPT !.status = "active", !.backend = job[s].backend]
        <5>1. group \in [Folders -> Fl!GroupRows \cup {None}] /\ g \in Folders
          BY <1>1, <3>1
        <5>2. Fl!Updated(g, "active", job[s].backend)
          BY <2>1 DEF Fl!ResumeKeeps
        <5>3. QED
          BY <5>1, <5>2 DEF Fl!Updated
      <4>5. QED
        BY <3>1, <4>1, <4>2, <4>3, <4>4
    <3>3. /\ toWorker'[n] = IF toWorker[n] = None THEN g ELSE toWorker[n]
          /\ \A o \in Names \ {n} : toWorker'[o] = toWorker[o]
          /\ raced' = raced
      BY <1>1, <2>1, <3>1 DEF Fl!ResumeKeeps, Fl!Destinations
    <3>4. CASE m = n /\ n \notin raced
      <4>1. group[g] # None
        BY <1>1, <2>1, <3>1, <3>4 DEF Fl!ResumeKeeps
      <4>2. toWorker'[n] = g
        BY <1>1, <3>1, <3>3, <3>4, <4>1
      <4>3. QED
        BY <3>2, <3>4, <4>1, <4>2
    <3>5. CASE m # n
      BY <1>1, <3>1, <3>2, <3>3, <3>5
    <3>6. QED
      BY <3>3, <3>4, <3>5
  <2>6. \A m \in Names : Promised(m)'
    BY <1>1, <2>1 DEF Fl!ResumeKeeps, Fl!Updated, Fl!Destinations
  <2>7. QED
    BY <2>2, <2>3, <2>4, <2>5, <2>6
<1>12. CASE \E s \in Callers : Fl!ResumeProvisions(s)
  <2>1. PICK s \in Callers : Fl!ResumeProvisions(s)
    BY <1>12
  <2>2. Identified' /\ Raced'
    BY <1>1, <2>1 DEF Fl!ResumeProvisions, Fl!Updated
  <2>3. \A c \in Callers : Alone(c)'
    BY <1>1, <2>1 DEF Fl!ResumeProvisions, Fl!Updated
  <2>4. Single'
    BY <1>1, <2>1 DEF Fl!ResumeProvisions, Fl!Updated
  <2>5. \A m \in Names : Leads(m)' /\ Promised(m)'
    BY <1>1, <2>1 DEF Fl!ResumeProvisions, Fl!Updated
  <2>6. QED
    BY <2>2, <2>3, <2>4, <2>5
<1>13. CASE \E s \in Callers : Fl!Switched(s)
  BY <1>1, <1>13 DEF Fl!Switched
<1>14. CASE \E s \in Callers : Fl!Provisioned(s)
  BY <1>1, <1>14 DEF Fl!Provisioned, Fl!Introduce, Fl!Destinations
<1>15. CASE \E s \in Callers : Fl!NotProvisioned(s)
  BY <1>1, <1>15 DEF Fl!NotProvisioned, Fl!Introduce, Fl!Destinations
<1>16. CASE \E s \in Callers : Fl!DiscordDeletes(s)
  BY <1>1, <1>16 DEF Fl!DiscordDeletes
<1>17. CASE \E s \in Callers : Fl!DeletedLast(s)
  BY <1>1, <1>17 DEF Fl!DeletedLast, Fl!Archive
<1>18. CASE \E s \in Callers : Fl!Cleanup(s)
  BY <1>1, <1>18 DEF Fl!Cleanup, Fl!Idle
<1>19. CASE \E s \in Callers : Fl!DiscordLists(s)
  BY <1>1, <1>19 DEF Fl!DiscordLists
<1>20. CASE \E s \in Callers : Fl!ListRead(s)
  BY <1>1, <1>20 DEF Fl!ListRead, Fl!InTheMaking
<1>21. CASE \E s \in Callers : Fl!CleanupEnds(s)
  BY <1>1, <1>21 DEF Fl!CleanupEnds
<1>22. CASE \E s \in Callers, g \in Folders : Fl!Make(s, g)
  BY <1>1, <1>22 DEF Fl!Make, Fl!Taken, Fl!Holds
<1>23. CASE \E s \in Callers, h \in Chans : Fl!DiscordMakes(s, h)
  BY <1>1, <1>23 DEF Fl!DiscordMakes
<1>24. CASE \E s \in Callers, h \in Chans : Fl!DeletedNext(s, h)
  BY <1>1, <1>24 DEF Fl!DeletedNext
<1>25. CASE \E s \in Callers, h \in Chans : Fl!Reap(s, h)
  BY <1>1, <1>25 DEF Fl!Reap
<1>26. CASE Fl!Restart
  BY <1>1, <1>26 DEF Fl!Restart
<1>27. CASE UNCHANGED fleetVars
  BY <1>1, <1>27 DEF fleetVars
<1>28. CASE \E s \in Callers : Fl!DeleteBlocked(s)
  BY <1>1, <1>28 DEF Fl!DeleteBlocked, Fl!Turn
<1>29. CASE \E s \in Callers, n \in Names, g \in Folders : Fl!PurgeFails(s, n, g)
  BY <1>1, <1>29 DEF Fl!PurgeFails, Fl!Command, Fl!Meets, Fl!Holds
<1>30. QED
  BY <1>2, <1>3, <1>4, <1>5, <1>6, <1>7, <1>8, <1>9, <1>10, <1>11, <1>12, <1>13, <1>14,
         <1>15, <1>16, <1>17, <1>18, <1>19, <1>20, <1>21, <1>22, <1>23, <1>24, <1>25,
         <1>26, <1>27, <1>28, <1>29 DEF Fl!Next

(* The invariant is inductive. *)
LEMMA FleetNext ==
    ASSUME FleetDistinct, FleetInv, [Fl!Next]_fleetVars PROVE FleetInv'
BY FleetTyped, FleetFormed, ChannelsKeep, NamesKeep DEF FleetInv

-----------------------------------------------------------------------------
(* The fleet as a part of the operations *)

PartInv == part = "fleet" => FleetInv

LEMMA PartStarts == SystemInit => PartInv
BY FleetAssumption DEF FleetDistinct, SystemInit, PartInv, Fl!Init, FleetInv, Fl!TypeOK, WellFormed, Runs, At,
       ChannelsInv, WiredOnce, Making, Deleting, Listing, Leftovers,
       NamesInv, Identified, Raced, Alone, Single, Leads, Promised

LEMMA PartKeeps == PartInv /\ [SystemNext]_systemVars => PartInv'
<1> USE FleetAssumption
<1> SUFFICES ASSUME PartInv, [SystemNext]_systemVars, part' = "fleet"
             PROVE  FleetInv'
  BY DEF PartInv
<1>1. part = "fleet" /\ [Fl!Next]_fleetVars
  BY DEF SystemNext, OthersStay, systemVars
<1>2. QED
  BY <1>1, FleetNext DEF PartInv

(* cleanup_workers deletes no channel that a row of the tables names, but  *)
(* one that was in the making when it read them, whatever other sessions   *)
(* of the master do meanwhile (cleanup-workers.ts).                        *)
THEOREM WiredChannelsSpared == SystemSpec => []CleanupSpares
<1>1. PartInv => CleanupSpares
  BY DEF PartInv, FleetInv, ChannelsInv, Listing, Runs, At, CleanupSpares, Fl!CleanupSpares
<1>2. QED
  BY <1>1, PartStarts, PartKeeps, PTL DEF SystemSpec

(* No worker gets a second channel, unless two actions on its name overlap *)
(* (create-worker.ts, provision.ts).                                       *)
THEOREM NoSecondChannel == SystemSpec => []OneChannel
<1>1. ASSUME NEW S, \A h, i \in S : h = i
      PROVE  Cardinality(S) <= 1
  <2>1. CASE S = {}
    BY <2>1, FS_EmptySet
  <2>2. CASE S # {}
    <3>1. PICK h : S = {h}
      BY <1>1, <2>2
    <3>2. QED
      BY <3>1, FS_Singleton
  <2>3. QED
    BY <2>1, <2>2
<1>2. PartInv => OneChannel
  <2> SUFFICES ASSUME PartInv, part = "fleet"
               PROVE  Fl!OneChannel
    BY DEF OneChannel
  <2> SUFFICES ASSUME NEW g \in Folders, group[g] # None, group[g].name \notin raced
               PROVE  Cardinality(workerWired[g]) <= 1
    BY DEF Fl!OneChannel, Fl!Cardinality, Cardinality
  <2>1. \A h, i \in workerWired[g] : h = i
    BY DEF PartInv, FleetInv, NamesInv, Single
  <2>2. QED
    BY <1>1, <2>1
<1>3. QED
  BY <1>2, PartStarts, PartKeeps, PTL DEF SystemSpec

(* What the master was told of a worker is so until the worker is          *)
(* destroyed, and no destination leads to one that was, unless two actions *)
(* on its name overlap (create-worker.ts, destroy-worker.ts).              *)
THEOREM PromisesKept == SystemSpec => []PromiseKept
<1>1. PartInv => PromiseKept
  BY DEF PartInv, FleetInv, FleetDistinct, NamesInv, Leads, Promised, PromiseKept,
         Fl!PromiseKept, Fl!TypeOK
<1>2. QED
  BY <1>1, PartStarts, PartKeeps, PTL DEF SystemSpec

(* A recorded channel without a wiring is the one a destroy_worker is      *)
(* deleting right now, or was left so in the middle of an action: by a     *)
(* restart, by a purge, or by a row that another table refers to and that  *)
(* deleteMessagingGroup cannot delete (destroy-worker.ts).                 *)
THEOREM NoLeftovers == SystemSpec => []LeftoversAreFound
<1>1. PartInv => LeftoversAreFound
  BY DEF PartInv, FleetInv, ChannelsInv, Leftovers, Runs, At, LeftoversAreFound,
         Fl!LeftoversAreFound
<1>2. QED
  BY <1>1, PartStarts, PartKeeps, PTL DEF SystemSpec

-----------------------------------------------------------------------------
(* The installer.  Only a command the user let run takes from the machine  *)
(* what a step was for (StOn), a step that goes on or is logged as         *)
(* completed has left its part (StWays, StDriverWays), and so has every    *)
(* step the process is past or was told to leave out (StPast, StDone).     *)

StLasting(h) == h \ {"service"}

StOn(h, g) == "undone" \in g \/ StLasting(h) \subseteq g

StLeft(things, h) == "undone" \in h \/ things \subseteq h

StGood(h, purpose, ways) == \A way \in ways :
    /\ StOn(h, way.have)
    /\ way.logged \/ way.goes => StLeft(purpose, way.have)

StDriverSteps ==
    {"telegram-validate", "telegram-install", "pair-telegram", "discord-validate",
     "discord-app-info", "discord-install", "discord-open-dm", "whatsapp-install",
     "whatsapp-auth", "signal-install", "signal-auth", "slack-validate", "slack-install",
     "imessage-install", "teams-manifest", "teams-install", "init-first-agent"}

StTyped ==
    /\ at \in 1 .. 11
    /\ sub \in Seq(StDriverSteps)
    /\ sub # << >> => at = 9

StDone == \A name \in (skip \ asked) \cup completed : StLeft(St!Purpose(name), have)

StPast == \A i \in 1 .. 10 :
    i < at => St!Order[i] \in asked \/ StLeft(St!Purpose(St!Order[i]), have)

StAll == \A i \in 1 .. 10 : St!Order[i] \in asked \/ StLeft(St!Purpose(St!Order[i]), have)

StSaid == said = "ready" => StAll

StInv == StTyped /\ StDone /\ StPast /\ StSaid

-----------------------------------------------------------------------------
(* What the steps do to the machine                                        *)

LEMMA StHelp ==
    ASSUME NEW h, NEW g \in St!Assisted(h) \cup St!HandedOff(h)
    PROVE  "undone" \in g \/ h \subseteq g
BY DEF St!Assisted, St!HandedOff, St!Suggested

LEMMA StRestarted ==
    ASSUME NEW h, NEW g \in St!Restarted(h) PROVE StOn(h, g)
BY DEF St!Restarted, StOn, StLasting

LEMMA StContainer == ASSUME NEW h PROVE StGood(h, {"image"}, St!Container(h))
<1> DEFINE Built(i) == IF {"group", "sg"} \cap i # {} THEN St!BuildImage(i) ELSE St!Failed(i)
           Started(g) == St!Then(St!TryStartDocker(g), Built)
<1>1. ASSUME NEW i, NEW way \in Built(i)
      PROVE  i \subseteq way.have /\ (way.logged \/ way.goes => "image" \in way.have)
  BY <1>1 DEF St!BuildImage, St!Done, St!Tried, St!Failed, St!Way
<1> HIDE DEF Built
<1>2. ASSUME NEW g, NEW way \in Started(g)
      PROVE  g \subseteq way.have /\ (way.logged \/ way.goes => "image" \in way.have)
  BY <1>1, <1>2 DEF St!Then, St!TryStartDocker, St!Done, St!Tried, St!Failed, St!Way
<1>3. St!Container(h) = St!Then(St!InstallDocker(h), Started)
  BY DEF St!Container, Built
<1> HIDE DEF Started
<1>4. QED
  BY <1>2, <1>3 DEF StGood, StOn, StLasting, StLeft, St!Then, St!InstallDocker, St!Done, St!Tried,
                    St!Failed, St!Way

LEMMA StOnecli == ASSUME NEW h PROVE StGood(h, {"url"}, St!Onecli(h))
BY DEF StGood, StOn, StLasting, StLeft, St!Onecli, St!OnecliFresh, St!OnecliReuse,
       St!DetectExistingOnecli, St!Then, St!InstallOnecli, St!InstallOnecliCliDirect,
       St!DoneIn, St!Done, St!Tried, St!Failed, St!Way

LEMMA StAuth == ASSUME NEW h PROVE StGood(h, {"secret"}, St!Auth(h))
<1>1. StGood(h, {"secret"}, St!SignIn(h))
  BY DEF StGood, StOn, StLasting, StLeft, St!SignIn, St!Then, St!VaultAnswers, St!Done, St!Tried,
         St!Failed, St!Way
<1>2. \A way \in St!SignIn(h) :
         way = [logged |-> way.logged, goes |-> way.goes, have |-> way.have]
  BY DEF St!SignIn, St!Then, St!VaultAnswers, St!Done, St!Tried, St!Failed, St!Way
<1>3. StGood(h, {"secret"}, St!SubscriptionAuth(h))
  BY <1>1, <1>2 DEF StGood, St!SubscriptionAuth
<1>4. StGood(h, {"secret"}, St!PasteAuth(h))
  BY DEF StGood, StOn, StLasting, StLeft, St!PasteAuth, St!VaultAnswers, St!Done, St!Tried, St!Failed,
         St!Way
<1>5. QED
  BY <1>3, <1>4 DEF StGood, StOn, StLasting, StLeft, St!Auth, St!Done, St!Way

LEMMA StCliAgent == ASSUME NEW h PROVE StGood(h, {"agent"}, St!CliAgent(h))
BY StHelp DEF StGood, StOn, StLasting, StLeft, St!CliAgent, St!InitCliAgent, St!Then, St!DoneIn,
              St!Done, St!Tried, St!Failed, St!Way

LEMMA StTimezone == ASSUME NEW h PROVE StGood(h, {}, St!Timezone(h))
<1>1. \A way \in St!DetectZone(h) :
         /\ way = [logged |-> way.logged, goes |-> way.goes, have |-> way.have]
         /\ h \subseteq way.have
  BY DEF St!DetectZone, St!Done, St!Way
<1>2. QED
  BY <1>1 DEF StGood, StOn, StLasting, StLeft, St!Timezone, St!Failed, St!Way

(* A step's process leaves what the step is for, or does not go on.        *)
LEMMA StWays ==
    ASSUME NEW h, NEW name \in St!Steps
    PROVE  StGood(h, St!Purpose(name), St!Ways(name, h))
<1>1. StGood(h, {}, St!CheckEnvironment(h))
  BY DEF StGood, StOn, StLasting, StLeft, St!CheckEnvironment, St!Done, St!Failed, St!Way
<1>2. StGood(h, {"rules"}, St!Mounts(h))
  BY DEF StGood, StOn, StLasting, StLeft, St!Mounts, St!Done, St!Tried, St!Failed, St!Way
<1>3. StGood(h, {}, St!Service(h))
  BY DEF StGood, StOn, StLasting, StLeft, St!Service, St!Launchd, St!Systemd, St!NohupFallback,
         St!DoneIn, St!Restarted, St!Done, St!Failed, St!Way
<1>4. QED
  BY <1>1, <1>2, <1>3, StOnecli, StAuth, StCliAgent, StTimezone
  DEF St!Ways, St!Purpose, St!Steps

(* The channels: what an install phase and the restart after it leave.     *)
LEMMA StWithCredentials ==
    ASSUME NEW h, NEW things, NEW way \in St!WithCredentials(h, things)
    PROVE  StOn(h, way.have)
BY StRestarted DEF St!WithCredentials, St!DoneIn, St!Done, St!Way, StOn, StLasting

LEMMA StInstallPhase ==
    ASSUME NEW h, NEW name, NEW way \in St!InstallPhase(h, name)
    PROVE  h \subseteq way.have
BY DEF St!InstallPhase, St!Done, St!Tried, St!Failed, St!Way

LEMMA StInstalls ==
    ASSUME NEW h,
           NEW way \in St!AddTelegram(h) \cup St!AddDiscord(h) \cup St!AddSlack(h)
                         \cup St!AddTeams(h) \cup St!AddImessage(h) \cup St!AddWhatsapp(h)
    PROVE  StOn(h, way.have)
<1>1. ASSUME NEW name, NEW g \in St!InstallPhase(h, name), NEW things,
             NEW v \in St!WithCredentials(g.have, things)
      PROVE  StOn(h, v.have)
  BY <1>1, StInstallPhase, StWithCredentials DEF StOn, StLasting
<1>2. ASSUME NEW name, NEW g \in St!InstallPhase(h, name)
      PROVE  StOn(h, g.have)
  BY <1>2, StInstallPhase DEF StOn, StLasting
<1>3. CASE way \in St!AddTelegram(h)
  BY <1>1, <1>2, <1>3 DEF St!AddTelegram, St!Then
<1>4. CASE way \in St!AddDiscord(h)
  BY <1>1, <1>2, <1>4 DEF St!AddDiscord, St!Then
<1>5. CASE way \in St!AddSlack(h)
  BY <1>1, <1>2, <1>5 DEF St!AddSlack, St!Then
<1>6. CASE way \in St!AddTeams(h)
  BY <1>1, <1>2, <1>6 DEF St!AddTeams, St!Then
<1>7. CASE way \in St!AddImessage(h)
  BY <1>1, <1>2, <1>7 DEF St!AddImessage, St!Then
<1>8. CASE way \in St!AddWhatsapp(h)
  BY <1>2, <1>8 DEF St!AddWhatsapp
<1>9. QED
  BY <1>3, <1>4, <1>5, <1>6, <1>7, <1>8

LEMMA StWhatsappLinked ==
    ASSUME NEW h, NEW way \in St!WhatsappLinked(h) PROVE StOn(h, way.have)
<1>1. PICK w \in St!WhatsappAuth(h) : \E g \in St!Restarted(w.have) : way.have = g
  BY DEF St!WhatsappLinked, St!Way
<1>2. h \subseteq w.have
  BY DEF St!WhatsappAuth, St!Done, St!Tried, St!Failed, St!Way
<1>3. QED
  BY <1>1, <1>2, StRestarted DEF StOn, StLasting

LEMMA StSignal ==
    ASSUME NEW h, NEW way \in St!SignalInstall(h) \cup St!SignalLinked(h)
    PROVE  StOn(h, way.have)
<1>1. CASE way \in St!SignalInstall(h)
  BY <1>1 DEF St!SignalInstall, St!EnsureSignalCli, St!AddSignal, St!Then, St!Done,
              St!Tried, St!Failed, St!Way, StOn, StLasting
<1>2. CASE way \in St!SignalLinked(h)
  <2>1. \A g \in St!SignalAuth(h) : h \subseteq g.have
    BY DEF St!SignalAuth, St!Done, St!Tried, St!Failed, St!Way
  <2>2. QED
    BY <1>2, <2>1, StWithCredentials DEF St!SignalLinked, St!Then, StOn, StLasting
<1>3. QED
  BY <1>1, <1>2

(* A step of a channel driver takes nothing away but a service.            *)
LEMMA StDriverWays ==
    ASSUME NEW h, NEW name \in StDriverSteps, NEW way \in St!DriverWays(name, h)
    PROVE  StOn(h, way.have)
<1>1. CASE way \in St!Done(h) \cup St!Failed(h)
  BY <1>1 DEF St!Done, St!Failed, St!Way, StOn, StLasting
<1>2. CASE way \in St!PairTelegram(h)
  BY <1>2 DEF St!PairTelegram, St!Done, St!Failed, St!Way, StOn, StLasting
<1>3. CASE way \in St!TeamsManifest(h)
  BY <1>3, StHelp DEF St!TeamsManifest, St!Done, St!Failed, St!Way, StOn, StLasting
<1>4. CASE way \in St!InitFirstAgent(h)
  BY <1>4 DEF St!InitFirstAgent, St!Done, St!Failed, St!Way, StOn, StLasting
<1>5. QED
  BY <1>1, <1>2, <1>3, <1>4, StInstalls, StWhatsappLinked, StSignal
  DEF St!DriverWays, StDriverSteps, St!ValidateTelegramToken, St!ValidateDiscordToken,
      St!FetchApplicationInfo, St!OpenDmChannel, St!ValidateSlackToken


-----------------------------------------------------------------------------
(* What the process did before a step stays done through it                *)

LEMMA StMono ==
    ASSUME NEW h, NEW g, StOn(h, g), NEW name, StLeft(St!Purpose(name), h)
    PROVE  StLeft(St!Purpose(name), g)
BY DEF StOn, StLeft, StLasting, St!Purpose

LEMMA StHere ==
    ASSUME NEW i \in 1 .. 10
    PROVE  /\ St!Order[i] = "channel" <=> i = 9
           /\ St!Order[i] = "verify" <=> i = 10
BY DEF St!Order

LEMMA StGoing ==
    ASSUME StTyped, St!Going
    PROVE  at \in 1 .. 10 /\ Len(St!Order) = 10
BY DEF StTyped, St!Going, St!Order

LEMMA StKeepsDone ==
    ASSUME StDone, asked' = asked, StOn(have, have'),
           skip' \subseteq skip \cup completed,
           \A name \in completed' \ completed : StLeft(St!Purpose(name), have')
    PROVE  StDone'
<1>1. \A name \in (skip \ asked) \cup completed : StLeft(St!Purpose(name), have')
  BY StMono DEF StDone
<1>2. QED
  BY <1>1 DEF StDone

LEMMA StKeepsPast ==
    ASSUME StPast, asked' = asked, StOn(have, have'), at \in 1 .. 11,
           at' \in 1 .. 11,
           \/ at' <= at
           \/ /\ at' = at + 1
              /\ at \in 1 .. 10 =>
                   St!Order[at] \in asked \/ StLeft(St!Purpose(St!Order[at]), have')
    PROVE  StPast'
<1>1. \A i \in 1 .. 10 :
         i < at => St!Order[i] \in asked \/ StLeft(St!Purpose(St!Order[i]), have')
  BY StMono DEF StPast
<1>2. \A i \in 1 .. 10 : i < at' => i < at \/ i = at
  OBVIOUS
<1>3. QED
  BY <1>1, <1>2 DEF StPast

LEMMA StKeepsSaid ==
    ASSUME StSaid, asked' = asked, StOn(have, have'),
           said' = "ready" => said = "ready" \/ (at' = 11 /\ StPast')
    PROVE  StSaid'
<1>1. CASE said' = "ready" /\ said = "ready"
  BY <1>1, StMono DEF StSaid, StAll
<1>2. CASE said' = "ready" /\ at' = 11 /\ StPast'
  BY <1>2 DEF StSaid, StAll, StPast
<1>3. QED
  BY <1>1, <1>2 DEF StSaid

LEMMA StFlow == ASSUME NEW c PROVE St!Flow(c) \in Seq(StDriverSteps)
<1>1. /\ St!Telegram \in Seq(StDriverSteps) /\ St!Whatsapp \in Seq(StDriverSteps)
      /\ St!Discord \in Seq(StDriverSteps) /\ St!Signal \in Seq(StDriverSteps)
  BY DEF St!Telegram, St!Discord, St!Whatsapp, St!Signal, StDriverSteps
<1>2. /\ St!Slack \in Seq(StDriverSteps) /\ St!Imessage \in Seq(StDriverSteps)
      /\ St!Teams \in Seq(StDriverSteps) /\ << >> \in Seq(StDriverSteps)
  BY DEF St!Slack, St!Imessage, St!Teams, StDriverSteps
<1>3. QED
  BY <1>1, <1>2 DEF St!Flow

-----------------------------------------------------------------------------

LEMMA StSkips == ASSUME StInv, St!Skipped PROVE StInv'
<1> USE DEF St!Skipped, St!Going, St!Here, St!env, St!outcome
<1>1. at \in 1 .. 10 /\ at' = at + 1 /\ StOn(have, have')
  BY DEF StInv, StTyped, StOn, StLasting, St!Order
<1>2. St!Order[at] \in asked \/ StLeft(St!Purpose(St!Order[at]), have')
  BY DEF StInv, StDone
<1>3. StPast'
  BY <1>1, <1>2, StKeepsPast DEF StInv, StTyped
<1>4. StSaid'
  BY <1>1, <1>3, StHere, StKeepsSaid DEF StInv
<1>5. StTyped' /\ StDone'
  BY <1>1 DEF StInv, StTyped, StDone
<1>6. QED
  BY <1>3, <1>4, <1>5 DEF StInv

LEMMA StVerifies == ASSUME StInv, St!VerifyWorks \/ St!VerifyFails PROVE StInv'
<1>1. at = 10 /\ sub = << >>
  BY StHere, StGoing DEF StInv, St!VerifyWorks, St!VerifyFails, St!Turn, St!Here
<1>2. /\ at' = 11 /\ sub' = sub /\ have' = have /\ asked' = asked /\ skip' = skip
      /\ completed' \subseteq completed \cup {"verify"}
  <2>1. CASE St!VerifyWorks
    BY <1>1, <2>1 DEF St!VerifyWorks, St!Logs, St!Way, St!env
  <2>2. CASE St!VerifyFails
    <3>1. /\ at' = Len(St!Order) + 1 /\ St!Going
          /\ sub' = sub /\ have' = have /\ asked' = asked /\ skip' = skip
          /\ completed' = completed
      BY <2>2 DEF St!VerifyFails, St!Turn, St!env
    <3>2. Len(St!Order) = 10
      BY DEF St!Order
    <3>3. QED
      BY <3>1, <3>2
  <2>3. QED
    BY <2>1, <2>2
<1>3. StOn(have, have') /\ St!Purpose("verify") = {}
  BY <1>2 DEF StOn, StLasting, St!Purpose
<1>4. StPast'
  BY <1>1, <1>2, <1>3, StHere, StKeepsPast DEF StInv, StLeft
<1>5. StSaid'
  BY <1>2, <1>3, <1>4, StKeepsSaid DEF StInv
<1>6. StTyped' /\ StDone'
  BY <1>1, <1>2, <1>3, StKeepsDone DEF StInv, StTyped, StLeft
<1>7. QED
  BY <1>4, <1>5, <1>6 DEF StInv

(* A step that has a process of its own. *)
LEMMA StEnds ==
    ASSUME StInv, NEW name, name \notin {"channel", "verify"}, NEW way,
           StOn(have, way.have),
           way.logged \/ way.goes => StLeft(St!Purpose(name), way.have),
           St!StepEnds(name, way)
    PROVE  StInv'
<1> USE DEF St!StepEnds, St!Turn, St!Here, St!env, St!outcome
<1>1. /\ at \in 1 .. 10 /\ St!Order[at] = name /\ sub' = << >> /\ have' = way.have
      /\ asked' = asked /\ skip' = skip /\ said' = said
      /\ at' = at \/ (way.goes /\ at' = at + 1)
      /\ completed' = completed \/ (way.logged /\ completed' = completed \cup {name})
  BY StGoing DEF StInv, St!Logs
<1>2. StPast'
  BY <1>1, StKeepsPast DEF StInv, StTyped
<1>3. StSaid'
  BY <1>1, StKeepsSaid DEF StInv
<1>4. StTyped' /\ StDone'
  BY <1>1, StKeepsDone DEF StInv, StTyped
<1>5. QED
  BY <1>2, <1>3, <1>4 DEF StInv

LEMMA StReexecs ==
    ASSUME StInv, NEW way \in St!Container(have), St!Reexecs(way) PROVE StInv'
<1> USE DEF St!Reexecs, St!Turn, St!Here, St!env, St!outcome
<1>1. /\ StOn(have, have') /\ asked' = asked /\ skip' = skip /\ said' = said
      /\ at' = 1 /\ sub' = << >> /\ completed' = {}
  BY StContainer DEF StGood, StOn, StLasting
<1>2. StPast' /\ StSaid'
  BY <1>1, StKeepsPast, StKeepsSaid DEF StInv, StTyped
<1>3. StTyped' /\ StDone'
  BY <1>1, StKeepsDone DEF StInv, StTyped
<1>4. QED
  BY <1>2, <1>3 DEF StInv

LEMMA StChooses == ASSUME StInv, NEW c, St!ChooseChannel(c) PROVE StInv'
<1> USE DEF St!ChooseChannel, St!Turn, St!Here, St!env, St!outcome
<1>1. /\ at = 9 /\ sub' = St!Flow(c) /\ at' = IF sub' = << >> THEN 10 ELSE 9
      /\ have' = have /\ asked' = asked /\ skip' = skip /\ said' = said
      /\ completed' = completed
  BY StHere, StGoing DEF StInv
<1>2. StOn(have, have') /\ St!Purpose("channel") = {}
  BY <1>1 DEF StOn, StLasting, St!Purpose
<1>3. StPast' /\ StSaid'
  BY <1>1, <1>2, StHere, StKeepsPast, StKeepsSaid DEF StInv, StLeft
<1>4. StTyped' /\ StDone'
  BY <1>1, <1>2, StFlow, StKeepsDone DEF StInv, StTyped
<1>5. QED
  BY <1>3, <1>4 DEF StInv

LEMMA StDrives ==
    ASSUME StInv, sub # << >>, NEW way \in St!DriverWays(Head(sub), have),
           St!DriverStepEnds(way)
    PROVE  StInv'
<1> DEFINE name == Head(sub)
<1>1. name \in StDriverSteps /\ Tail(sub) \in Seq(StDriverSteps) /\ at = 9
  BY DEF StInv, StTyped
<1>2. /\ have' = way.have /\ asked' = asked /\ skip' = skip /\ said' = said
      /\ completed' \subseteq completed \cup {name}
  BY DEF St!DriverStepEnds, St!Logs, St!env
<1>3. \/ sub' = sub /\ at' = at
      \/ sub' = Tail(sub) /\ at' = IF sub' = << >> THEN at + 1 ELSE at
  BY DEF St!DriverStepEnds, St!Along
<1>4. StOn(have, have')
  BY <1>1, <1>2, StDriverWays
<1>5. St!Purpose(name) = {} /\ St!Purpose("channel") = {}
  BY <1>1 DEF St!Purpose, StDriverSteps
<1> HIDE DEF name
<1>6. StPast' /\ StSaid'
  BY <1>1, <1>2, <1>3, <1>4, <1>5, StHere, StKeepsPast, StKeepsSaid DEF StInv, StLeft
<1>7. StTyped' /\ StDone'
  BY <1>1, <1>2, <1>3, <1>4, <1>5, StKeepsDone DEF StInv, StTyped, StLeft
<1>8. QED
  BY <1>6, <1>7 DEF StInv

LEMMA StRetries == ASSUME StInv, NEW name, St!Retries(name) PROVE StInv'
<1>1. /\ StOn(have, have') /\ asked' = asked /\ skip' = skip \cup completed
      /\ at' = 1 /\ sub' = << >> /\ completed' = {} /\ said' = "nothing"
  BY StHelp DEF St!Retries, St!SkipList, StOn, StLasting
<1>2. StPast' /\ StSaid'
  BY <1>1, StKeepsPast, StKeepsSaid DEF StInv, StTyped
<1>3. StTyped' /\ StDone'
  BY <1>1, StKeepsDone DEF StInv, StTyped
<1>4. QED
  BY <1>2, <1>3 DEF StInv

LEMMA StNext == ASSUME StInv, [St!Next]_setupVars PROVE StInv'
<1>1. CASE UNCHANGED setupVars \/ St!GivesUp \/ St!Ends \/ St!Over
  BY <1>1 DEF setupVars, St!GivesUp, St!Ends, St!Over, St!env, St!vars, StInv, StTyped,
              StDone, StPast, StSaid, StAll
<1>2. CASE \E way \in St!Container(have) : St!ContainerEnds(way)
  <2>1. PICK way \in St!Container(have) : St!StepEnds("container", way)
    BY <1>2 DEF St!ContainerEnds
  <2>2. St!Purpose("container") = {"image"}
    BY DEF St!Purpose
  <2>3. QED
    BY <2>1, <2>2, StContainer, StEnds DEF StGood
<1>3. CASE \E name \in St!Steps : \E way \in St!Ways(name, have) : St!StepEnds(name, way)
  <2>1. \A name \in St!Steps : name \notin {"channel", "verify"}
    BY DEF St!Steps
  <2>2. QED
    BY <1>3, <2>1, StWays, StEnds DEF StGood
<1>4. QED
  BY <1>1, <1>2, <1>3, StSkips, StVerifies, StReexecs, StChooses, StDrives, StRetries
  DEF St!Next, St!InDriver

StPart == part = "setup" => StInv

LEMMA StPartStarts == SystemInit => StPart
<1>1. St!Init => StInv
  BY DEF St!Init, StInv, StTyped, StDone, StPast, StSaid
<1>2. QED
  BY <1>1 DEF SystemInit, StPart

LEMMA StPartKeeps ==
    StPart /\ [SystemNext]_systemVars => StPart'
<1> SUFFICES ASSUME StPart, [SystemNext]_systemVars, part' = "setup"
             PROVE  StInv'
  BY DEF StPart
<1>1. part = "setup" /\ [St!Next]_setupVars
  BY DEF SystemNext, OthersStay, systemVars
<1>2. QED
  BY <1>1, StNext DEF StPart

(* "You're ready" is said only of a machine on which every step that was    *)
(* not left out has left its part, however often one failed, was repaired  *)
(* and tried again, unless a command that Claude proposed undid it         *)
(* (setup/auto.ts, setup/lib/runner.ts).                                   *)
THEOREM ReadyIsTrue ==
    SystemSpec => []ReadyMeansDone
<1>1. StPart => ReadyMeansDone
  <2>1. StAll /\ "undone" \notin have => St!Due \subseteq have
    BY DEF StAll, StLeft, St!Due, St!Order
  <2>2. QED
    BY <2>1 DEF StPart, StInv, StSaid, ReadyMeansDone, St!ReadyMeansDone
<1>2. QED
  BY <1>1, StPartStarts, StPartKeeps, PTL DEF SystemSpec
=============================================================================
