---------------------------- MODULE Handover_proofs ----------------------------
(***************************************************************************)
(* Proofs about Handover, for every set of jobs and of processes and every *)
(* number of rows and starts.                                              *)
(***************************************************************************)
EXTENDS Handover, TLAPS

\* Whoever acts has the lock.
Locked ==
  /\ rails.pc # "down" => flock = "rails"
  /\ \A p \in Processes : Holds(p) => flock = p

\* Rails is up on an install it has opened, a start past its claim on one Rust owns.
Stages ==
  /\ rails.pc = "up" => lease = "absent"
  /\ rails.pc # "up" => ~rails.ran
  /\ rails.pc \in {"down", "booting"} => rails.hand = None
  /\ \A p \in Processes :
       /\ proc[p].pc \in {"listed", "running"} => proc[p].job = "serve"
       /\ proc[p].pc = "imported" => proc[p].job = "handback"
       /\ proc[p].job = "serve" /\ proc[p].pc \in {"claimed", "emptied", "worked", "listed", "running"}
            => lease = "rust"

\* Nothing is journalled or stored while Rails owns the install: a handback empties both.
Emptied ==
  /\ lease # "rust" => journal.done = {} /\ journal.importing = {} /\ calls = {}
  /\ \A p \in Processes :
       /\ proc[p].pc \in {"imported", "emptied", "worked", "listed", "running"} => journal.importing = {}
       /\ proc[p].job = "handback" /\ proc[p].pc \in {"emptied", "worked"} => calls = {}
  /\ journal.done \subseteq StopJobs \cup Calls

\* What has left the queue, or is on its way out, was done or is stored.
Stored ==
  /\ journal.done \subseteq outcomes.answered
  /\ journal.importing \subseteq calls \cup outcomes.answered
  /\ rails.ran /\ rails.hand # None => rails.hand \in outcomes.answered
  /\ rails.pc = "enqueued" => rails.hand \in IndexBots /\ queue[rails.hand] = "waiting"
  /\ \A p \in Processes : At(p, "listed") => Resyncs \subseteq owed
  /\ NothingLost

\* A row acted on stays journalled until it is gone, and a call is where it can still be
\* placed only while it was not.
Acted ==
  /\ ActedOnce
  /\ \A r \in StopJobs \cup Calls :
       outcomes.acted[r] > 0 => r \in journal.done \cup journal.importing \/ queue[r] = "gone"
  /\ \A c \in journal.importing : queue[c] \in {"waiting", "gone"}
  /\ \A c \in calls : outcomes.placed[c] = 0 /\ (c \in journal.importing \/ queue[c] = "gone")
  /\ \A c \in Calls : outcomes.placed[c] > 0 =>
       \/ queue[c] = "gone"
       \/ queue[c] \in {"claimed", "failed"} /\ (rails.hand = c => rails.ran)
  /\ rails.pc = "up" /\ rails.hand # None => queue[rails.hand] = "claimed"

\* What Rails left unrecorded is collected, or its window is open and it lies in it.
Window ==
  /\ stamps.back <= now /\ (rails.pc = "up" => stamps.back < now)
  /\ \A t \in lines.written : t <= now /\ (t \in lines.found \/ (NewOwnership /\ t > stamps.back))
  /\ ranked = "stale" => NewOwnership
  /\ \A p \in Processes : Holds(p) =>
       /\ \A t \in lines.written : t < now
       /\ NewOwnership => proc[p].pc \in {"locked", "serving"}

\* Every step keeps the types.
LEMMA Typed ==
  ASSUME TypeOK, [Next]_vars
  PROVE  TypeOK'
<1> USE RowsAreApart, AgentsAreApart, NoneIsNoRow, BoundsAssumption DEF install, At, Goes
<1>1. CASE RailsLocks
  BY <1>1 DEF RailsLocks, TypeOK, Rows, Times, Steps
<1>2. CASE RailsRefuses
  BY <1>2 DEF RailsRefuses, TypeOK, Rows, Times, Steps
<1>3. CASE AdoptEnqueues
  <2>1. PICK b \in owed : /\ queue' = [queue EXCEPT ![b] = "waiting"]
                         /\ rails' = [rails EXCEPT !.pc = "enqueued", !.hand = b]
    BY <1>3 DEF AdoptEnqueues
  <2>2. b \in Rows
    BY DEF TypeOK, Rows
  <2>3. queue' \in [Rows -> {"none", "waiting", "claimed", "failed", "gone"}]
    BY <2>1, <2>2 DEF TypeOK
  <2>4. rails' \in [pc : {"down", "booting", "enqueued", "up"}, hand : Rows \cup {None}, ran : BOOLEAN]
    BY <2>1, <2>2 DEF TypeOK
  <2> QED BY <1>3, <2>3, <2>4 DEF AdoptEnqueues, TypeOK
<1>4. CASE AdoptClears
  BY <1>4 DEF AdoptClears, TypeOK, Rows, Times, Steps
<1>5. CASE RailsOpens
  BY <1>5 DEF RailsOpens, TypeOK, Rows, Times, Steps
<1>6. ASSUME NEW r \in Rows, RailsEnqueues(r) PROVE TypeOK'
  BY <1>6 DEF RailsEnqueues, TypeOK, Rows, Times, Steps
<1>7. ASSUME NEW r \in Rows, RailsClaims(r) PROVE TypeOK'
  BY <1>7 DEF RailsClaims, TypeOK, Rows, Times, Steps
<1>8. CASE RailsRuns
  <2>1. rails.hand \in Rows
    BY <1>8 DEF RailsRuns, TypeOK
  <2>2. rails' \in [pc : {"down", "booting", "enqueued", "up"}, hand : Rows \cup {None}, ran : BOOLEAN]
    BY <1>8 DEF RailsRuns, TypeOK
  <2>3. outcomes'.acted = outcomes.acted /\ outcomes'.answered = outcomes.answered \cup {rails.hand}
        /\ outcomes'.placed = [c \in Calls |-> outcomes.placed[c] + IF c = rails.hand THEN 1 ELSE 0]
        /\ outcomes' = [acted |-> outcomes'.acted, placed |-> outcomes'.placed, answered |-> outcomes'.answered]
    BY <1>8 DEF RailsRuns, TypeOK
  <2>4. outcomes'.placed \in [Calls -> Nat]
    BY <2>3 DEF TypeOK
  <2>5. outcomes'.acted \in [Rows -> Nat] /\ outcomes'.answered \subseteq Rows
    BY <2>1, <2>3 DEF TypeOK
  <2>6. outcomes' \in [acted : [Rows -> Nat], placed : [Calls -> Nat], answered : SUBSET Rows]
    BY <2>3, <2>4, <2>5
  <2> QED BY <1>8, <2>2, <2>6 DEF RailsRuns, TypeOK
<1>9. CASE RailsParks
  BY <1>9 DEF RailsParks, TypeOK, Rows, Times, Steps
<1>10. CASE RailsFinishes
  BY <1>10 DEF RailsFinishes, TypeOK, Rows, Times, Steps
<1>11. CASE RailsPrunes
  BY <1>11 DEF RailsPrunes, TypeOK, Rows, Times, Steps
<1>12. CASE RailsWritesLine
  BY <1>12 DEF RailsWritesLine, TypeOK, Rows, Times, Steps
<1>13. CASE RailsPullsIndex
  BY <1>13 DEF RailsPullsIndex, TypeOK, Rows, Times, Steps
<1>14. CASE RailsDies
  BY <1>14 DEF RailsDies, TypeOK, Rows, Times, Steps
<1>15. ASSUME NEW p \in Processes, Locks(p) PROVE TypeOK'
  BY <1>15 DEF Locks, TypeOK, Rows, Times, Steps
<1>16. ASSUME NEW p \in Processes, Refuses(p) PROVE TypeOK'
  BY <1>16 DEF Refuses, TypeOK, Rows, Times, Steps
<1>17. ASSUME NEW p \in Processes, Claims(p) PROVE TypeOK'
  <2>1. Stopped \subseteq Rows /\ Ambiguous \subseteq Calls /\ Imported \subseteq Calls /\ Ambiguous \subseteq Rows
    BY DEF Stopped, Ambiguous, Imported, Unfinished, Rows
  <2>2. journal' \in [done : SUBSET Rows, importing : SUBSET Calls] /\ calls' \subseteq Calls
    BY <1>17, <2>1 DEF Claims, TypeOK
  <2>3. outcomes' = [acted |-> [r \in Rows |-> outcomes.acted[r]
                                   + IF r \in Stopped \cup Ambiguous \cup Imported THEN 1 ELSE 0],
                    placed |-> outcomes.placed,
                    answered |-> outcomes.answered \cup Stopped \cup Ambiguous]
    BY <1>17 DEF Claims, TypeOK
  <2>4. [r \in Rows |-> outcomes.acted[r] + IF r \in Stopped \cup Ambiguous \cup Imported THEN 1 ELSE 0]
          \in [Rows -> Nat]
    BY DEF TypeOK
  <2>5. outcomes' \in [acted : [Rows -> Nat], placed : [Calls -> Nat], answered : SUBSET Rows]
    BY <2>1, <2>3, <2>4 DEF TypeOK
  <2>6. /\ stamps' \in [back : Times, taken : Times] /\ ranked' \in {"none", "fresh", "stale"}
        /\ lines' \in [written : SUBSET Times, found : SUBSET Times]
    BY <1>17 DEF Claims, TypeOK
  <2>7. proc' \in [Processes -> [pc : Steps, job : {"serve", "handback"}]] /\ lease' = "rust"
        /\ marked' \in BOOLEAN /\ UNCHANGED <<now, flock, rails, queue, owed>>
    BY <1>17 DEF Claims, TypeOK, Steps
  <2> QED BY <2>2, <2>5, <2>6, <2>7 DEF TypeOK
<1>18. ASSUME NEW p \in Processes, DeletesImported(p) PROVE TypeOK'
  BY <1>18 DEF DeletesImported, TypeOK, Rows, Times, Steps
<1>19. ASSUME NEW p \in Processes, ClearsImport(p) PROVE TypeOK'
  BY <1>19 DEF ClearsImport, TypeOK, Rows, Times, Steps
<1>20. ASSUME NEW p \in Processes, HandExpires(p) PROVE TypeOK'
  BY <1>20 DEF HandExpires, TypeOK, Rows, Times, Steps
<1>21. ASSUME NEW p \in Processes, DeletesDone(p) PROVE TypeOK'
  BY <1>21 DEF DeletesDone, TypeOK, Rows, Times, Steps
<1>22. ASSUME NEW p \in Processes, ClearsDone(p) PROVE TypeOK'
  BY <1>22 DEF ClearsDone, TypeOK, Rows, Times, Steps
<1>23. ASSUME NEW p \in Processes, MarksResyncs(p) PROVE TypeOK'
  BY <1>23 DEF MarksResyncs, TypeOK, Rows, Times, Steps, Resyncs
<1>24. ASSUME NEW p \in Processes, DeletesResyncs(p) PROVE TypeOK'
  <2>1. queue' \in [Rows -> {"none", "waiting", "claimed", "failed", "gone"}]
    BY <1>24 DEF DeletesResyncs, TypeOK
  <2>2. proc' = proc \/ proc' = [proc EXCEPT ![p].pc = "running"]
    BY <1>24 DEF DeletesResyncs, Goes
  <2>3. proc' \in [Processes -> [pc : Steps, job : {"serve", "handback"}]]
    BY <2>2 DEF TypeOK, Steps
  <2>4. UNCHANGED <<now, install, rails, journal, calls, marked, owed, ranked, lines, outcomes>>
    BY <1>24 DEF DeletesResyncs
  <2> QED BY <2>1, <2>3, <2>4 DEF TypeOK, install, Times
<1>25. ASSUME NEW p \in Processes, RunsCall(p) PROVE TypeOK'
  <2>1. PICK c \in calls, places \in BOOLEAN :
          /\ calls' = calls \ {c}
          /\ outcomes' = [outcomes EXCEPT !.placed[c] = @ + IF places THEN 1 ELSE 0,
                                          !.answered = @ \cup {c}]
    BY <1>25 DEF RunsCall
  <2>2. c \in Calls /\ c \in Rows
    BY DEF TypeOK, Rows
  <2>3. outcomes' \in [acted : [Rows -> Nat], placed : [Calls -> Nat], answered : SUBSET Rows]
    <3>1. [outcomes.placed EXCEPT ![c] = @ + IF places THEN 1 ELSE 0] \in [Calls -> Nat]
      BY <2>2 DEF TypeOK
    <3>2. outcomes' = [acted |-> outcomes.acted,
                       placed |-> [outcomes.placed EXCEPT ![c] = @ + IF places THEN 1 ELSE 0],
                       answered |-> outcomes.answered \cup {c}]
      BY <2>1 DEF TypeOK
    <3> QED BY <2>2, <3>1, <3>2 DEF TypeOK
  <2> QED BY <1>25, <2>1, <2>3 DEF RunsCall, TypeOK
<1>26. ASSUME NEW p \in Processes, RunsResync(p) PROVE TypeOK'
  BY <1>26 DEF RunsResync, TypeOK, Rows, Times, Steps
<1>27. ASSUME NEW p \in Processes, AttestsRanking(p) PROVE TypeOK'
  BY <1>27 DEF AttestsRanking, TypeOK, Rows, Times, Steps
<1>28. ASSUME NEW p \in Processes, OwnerResolves(p) PROVE TypeOK'
  BY <1>28 DEF OwnerResolves, TypeOK, Rows, Times, Steps
<1>29. ASSUME NEW p \in Processes, EngineReturns(p) PROVE TypeOK'
  BY <1>29 DEF EngineReturns, TypeOK, Rows, Times, Steps
<1>30. ASSUME NEW p \in Processes, HandsBack(p) PROVE TypeOK'
  BY <1>30 DEF HandsBack, TypeOK, Rows, Times, Steps
<1>31. ASSUME NEW p \in Processes, Ends(p) PROVE TypeOK'
  BY <1>31 DEF Ends, TypeOK, Rows, Times, Steps
<1>32. CASE UNCHANGED <<now, flock, lease, stamps, rails, proc, queue, journal, calls, marked, owed, ranked, lines, outcomes>>
  BY <1>32 DEF TypeOK, Rows, Times, Steps
<1> QED
  BY <1>1, <1>2, <1>3, <1>4, <1>5, <1>6, <1>7, <1>8, <1>9, <1>10, <1>11, <1>12, <1>13, <1>14, <1>15, <1>16, <1>17, <1>18, <1>19, <1>20, <1>21, <1>22, <1>23, <1>24, <1>25, <1>26, <1>27, <1>28, <1>29, <1>30, <1>31, <1>32
  DEF Next, RailsActs, RustActs, Finishes, vars

\* The lock is given only when it is free, and dropped by who ends.
LEMMA LockedStep ==
  ASSUME TypeOK, Locked, [Next]_vars
  PROVE  Locked'
<1> USE RowsAreApart, AgentsAreApart, NoneIsNoRow, BoundsAssumption DEF install, At, Goes
<1>1. CASE RailsLocks
  BY <1>1 DEF RailsLocks, Locked, Holds, TypeOK
<1>2. CASE RailsRefuses
  BY <1>2 DEF RailsRefuses, Locked, Holds, TypeOK
<1>3. CASE AdoptEnqueues
  BY <1>3 DEF AdoptEnqueues, Locked, Holds, TypeOK
<1>4. CASE AdoptClears
  BY <1>4 DEF AdoptClears, Locked, Holds, TypeOK
<1>5. CASE RailsOpens
  BY <1>5 DEF RailsOpens, Locked, Holds, TypeOK
<1>6. ASSUME NEW r \in Rows, RailsClaims(r) PROVE Locked'
  BY <1>6 DEF RailsClaims, Locked, Holds, TypeOK
<1>7. CASE RailsRuns
  BY <1>7 DEF RailsRuns, Locked, Holds, TypeOK
<1>8. CASE RailsParks
  BY <1>8 DEF RailsParks, Locked, Holds, TypeOK
<1>9. CASE RailsFinishes
  BY <1>9 DEF RailsFinishes, Locked, Holds, TypeOK
<1>10. CASE RailsDies
  BY <1>10 DEF RailsDies, Locked, Holds, TypeOK
<1>11. ASSUME NEW p \in Processes, Locks(p) PROVE Locked'
  BY <1>11 DEF Locks, Locked, Holds, TypeOK
<1>12. ASSUME NEW p \in Processes, Refuses(p) PROVE Locked'
  BY <1>12 DEF Refuses, Locked, Holds, TypeOK
<1>13. ASSUME NEW p \in Processes, Claims(p) PROVE Locked'
  BY <1>13 DEF Claims, Locked, Holds, TypeOK
<1>14. ASSUME NEW p \in Processes, ClearsImport(p) PROVE Locked'
  BY <1>14 DEF ClearsImport, Locked, Holds, TypeOK
<1>15. ASSUME NEW p \in Processes, HandExpires(p) PROVE Locked'
  BY <1>15 DEF HandExpires, Locked, Holds, TypeOK
<1>16. ASSUME NEW p \in Processes, ClearsDone(p) PROVE Locked'
  BY <1>16 DEF ClearsDone, Locked, Holds, TypeOK
<1>17. ASSUME NEW p \in Processes, MarksResyncs(p) PROVE Locked'
  BY <1>17 DEF MarksResyncs, Locked, Holds, TypeOK
<1>18. ASSUME NEW p \in Processes, DeletesResyncs(p) PROVE Locked'
  BY <1>18 DEF DeletesResyncs, Locked, Holds, TypeOK
<1>19. ASSUME NEW p \in Processes, EngineReturns(p) PROVE Locked'
  BY <1>19 DEF EngineReturns, Locked, Holds, TypeOK
<1>20. ASSUME NEW p \in Processes, HandsBack(p) PROVE Locked'
  BY <1>20 DEF HandsBack, Locked, Holds, TypeOK
<1>21. ASSUME NEW p \in Processes, Ends(p) PROVE Locked'
  BY <1>21 DEF Ends, Locked, Holds, TypeOK
<1>22. CASE UNCHANGED <<flock, rails, proc>>
  BY <1>22 DEF Locked, Holds, TypeOK
<1> QED
  BY <1>1, <1>2, <1>3, <1>4, <1>5, <1>6, <1>7, <1>8, <1>9, <1>10, <1>11, <1>12, <1>13, <1>14, <1>15, <1>16, <1>17, <1>18, <1>19, <1>20, <1>21, <1>22
  DEF Next, RailsActs, RustActs, Finishes, vars, RailsEnqueues, RailsPrunes, RailsWritesLine, RailsPullsIndex, DeletesImported, DeletesDone, RunsCall, RunsResync, AttestsRanking, OwnerResolves

\* A claim, an open and a handback need the lock.
LEMMA StagesStep ==
  ASSUME TypeOK, Locked, Stages, [Next]_vars
  PROVE  Stages'
<1> USE RowsAreApart, AgentsAreApart, NoneIsNoRow, BoundsAssumption DEF install, At, Goes
<1>1. CASE RailsLocks
  BY <1>1 DEF RailsLocks, Locked, Holds, Stages, TypeOK, Steps
<1>2. CASE RailsRefuses
  BY <1>2 DEF RailsRefuses, Locked, Holds, Stages, TypeOK, Steps
<1>3. CASE AdoptEnqueues
  BY <1>3 DEF AdoptEnqueues, Locked, Holds, Stages, TypeOK, Steps
<1>4. CASE AdoptClears
  BY <1>4 DEF AdoptClears, Locked, Holds, Stages, TypeOK, Steps
<1>5. CASE RailsOpens
  BY <1>5 DEF RailsOpens, Locked, Holds, Stages, TypeOK, Steps
<1>6. ASSUME NEW r \in Rows, RailsClaims(r) PROVE Stages'
  BY <1>6 DEF RailsClaims, Locked, Holds, Stages, TypeOK, Steps
<1>7. CASE RailsRuns
  BY <1>7 DEF RailsRuns, Locked, Holds, Stages, TypeOK, Steps
<1>8. CASE RailsParks
  BY <1>8 DEF RailsParks, Locked, Holds, Stages, TypeOK, Steps
<1>9. CASE RailsFinishes
  BY <1>9 DEF RailsFinishes, Locked, Holds, Stages, TypeOK, Steps
<1>10. CASE RailsDies
  BY <1>10 DEF RailsDies, Locked, Holds, Stages, TypeOK, Steps
<1>11. ASSUME NEW p \in Processes, Locks(p) PROVE Stages'
  BY <1>11 DEF Locks, Locked, Holds, Stages, TypeOK, Steps
<1>12. ASSUME NEW p \in Processes, Refuses(p) PROVE Stages'
  BY <1>12 DEF Refuses, Locked, Holds, Stages, TypeOK, Steps
<1>13. ASSUME NEW p \in Processes, Claims(p) PROVE Stages'
  BY <1>13 DEF Claims, Locked, Holds, Stages, TypeOK, Steps
<1>14. ASSUME NEW p \in Processes, ClearsImport(p) PROVE Stages'
  BY <1>14 DEF ClearsImport, Locked, Holds, Stages, TypeOK, Steps
<1>15. ASSUME NEW p \in Processes, HandExpires(p) PROVE Stages'
  BY <1>15 DEF HandExpires, Locked, Holds, Stages, TypeOK, Steps
<1>16. ASSUME NEW p \in Processes, ClearsDone(p) PROVE Stages'
  BY <1>16 DEF ClearsDone, Locked, Holds, Stages, TypeOK, Steps
<1>17. ASSUME NEW p \in Processes, MarksResyncs(p) PROVE Stages'
  BY <1>17 DEF MarksResyncs, Locked, Holds, Stages, TypeOK, Steps
<1>18. ASSUME NEW p \in Processes, DeletesResyncs(p) PROVE Stages'
  BY <1>18 DEF DeletesResyncs, Locked, Holds, Stages, TypeOK, Steps
<1>19. ASSUME NEW p \in Processes, EngineReturns(p) PROVE Stages'
  BY <1>19 DEF EngineReturns, Locked, Holds, Stages, TypeOK, Steps
<1>20. ASSUME NEW p \in Processes, HandsBack(p) PROVE Stages'
  BY <1>20 DEF HandsBack, Locked, Holds, Stages, TypeOK, Steps
<1>21. ASSUME NEW p \in Processes, Ends(p) PROVE Stages'
  BY <1>21 DEF Ends, Locked, Holds, Stages, TypeOK, Steps
<1>22. CASE UNCHANGED <<lease, rails, proc>>
  BY <1>22 DEF Locked, Holds, Stages, TypeOK, Steps
<1> QED
  BY <1>1, <1>2, <1>3, <1>4, <1>5, <1>6, <1>7, <1>8, <1>9, <1>10, <1>11, <1>12, <1>13, <1>14, <1>15, <1>16, <1>17, <1>18, <1>19, <1>20, <1>21, <1>22
  DEF Next, RailsActs, RustActs, Finishes, vars, RailsEnqueues, RailsPrunes, RailsWritesLine, RailsPullsIndex, DeletesImported, DeletesDone, RunsCall, RunsResync, AttestsRanking, OwnerResolves

\* A start empties both journals before it runs, a handback also the stored calls.
LEMMA EmptiedStep ==
  ASSUME TypeOK, Locked, Stages, Emptied, [Next]_vars
  PROVE  Emptied'
<1> USE RowsAreApart, AgentsAreApart, NoneIsNoRow, BoundsAssumption DEF install, At, Goes
<1>1. CASE RailsOpens
  BY <1>1 DEF RailsOpens, Locked, Holds, Stages, Emptied, TypeOK, Steps
<1>2. ASSUME NEW p \in Processes, Locks(p) PROVE Emptied'
  BY <1>2 DEF Locks, Locked, Holds, Stages, Emptied, TypeOK, Steps
<1>3. ASSUME NEW p \in Processes, Refuses(p) PROVE Emptied'
  BY <1>3 DEF Refuses, Locked, Holds, Stages, Emptied, TypeOK, Steps
<1>4. ASSUME NEW p \in Processes, Claims(p) PROVE Emptied'
  BY <1>4 DEF Claims, Locked, Holds, Stages, Emptied, TypeOK, Steps, Stopped, Ambiguous, Imported, Unfinished
<1>5. ASSUME NEW p \in Processes, ClearsImport(p) PROVE Emptied'
  BY <1>5 DEF ClearsImport, Locked, Holds, Stages, Emptied, TypeOK, Steps
<1>6. ASSUME NEW p \in Processes, HandExpires(p) PROVE Emptied'
  BY <1>6 DEF HandExpires, Locked, Holds, Stages, Emptied, TypeOK, Steps
<1>7. ASSUME NEW p \in Processes, ClearsDone(p) PROVE Emptied'
  BY <1>7 DEF ClearsDone, Locked, Holds, Stages, Emptied, TypeOK, Steps
<1>8. ASSUME NEW p \in Processes, MarksResyncs(p) PROVE Emptied'
  BY <1>8 DEF MarksResyncs, Locked, Holds, Stages, Emptied, TypeOK, Steps
<1>9. ASSUME NEW p \in Processes, DeletesResyncs(p) PROVE Emptied'
  BY <1>9 DEF DeletesResyncs, Locked, Holds, Stages, Emptied, TypeOK, Steps
<1>10. ASSUME NEW p \in Processes, RunsCall(p) PROVE Emptied'
  BY <1>10 DEF RunsCall, Locked, Holds, Stages, Emptied, TypeOK, Steps
<1>11. ASSUME NEW p \in Processes, EngineReturns(p) PROVE Emptied'
  BY <1>11 DEF EngineReturns, Locked, Holds, Stages, Emptied, TypeOK, Steps
<1>12. ASSUME NEW p \in Processes, HandsBack(p) PROVE Emptied'
  BY <1>12 DEF HandsBack, Locked, Holds, Stages, Emptied, TypeOK, Steps
<1>13. ASSUME NEW p \in Processes, Ends(p) PROVE Emptied'
  BY <1>13 DEF Ends, Locked, Holds, Stages, Emptied, TypeOK, Steps
<1>14. CASE UNCHANGED <<lease, journal, calls, proc>>
  BY <1>14 DEF Locked, Holds, Stages, Emptied, TypeOK, Steps
<1> QED
  BY <1>1, <1>2, <1>3, <1>4, <1>5, <1>6, <1>7, <1>8, <1>9, <1>10, <1>11, <1>12, <1>13, <1>14
  DEF Next, RailsActs, RustActs, Finishes, vars, RailsLocks, RailsRefuses, AdoptEnqueues, AdoptClears, RailsEnqueues, RailsClaims, RailsRuns, RailsParks, RailsFinishes, RailsPrunes, RailsWritesLine, RailsPullsIndex, RailsDies, DeletesImported, DeletesDone, RunsResync, AttestsRanking, OwnerResolves

\* A row leaves the queue only from a journal, done, or marked on its bot.
LEMMA StoredStep ==
  ASSUME TypeOK, Locked, Stages, Emptied, Stored, [Next]_vars
  PROVE  Stored'
<1> USE RowsAreApart, AgentsAreApart, NoneIsNoRow, BoundsAssumption DEF install, At, Goes
<1>1. CASE RailsLocks
  BY <1>1 DEF RailsLocks, Locked, Holds, Stages, Emptied, Stored, NothingLost, Resyncs, TypeOK, Rows
<1>2. CASE RailsRefuses
  BY <1>2 DEF RailsRefuses, Locked, Holds, Stages, Emptied, Stored, NothingLost, Resyncs, TypeOK, Rows
<1>3. CASE AdoptEnqueues
  BY <1>3 DEF AdoptEnqueues, Locked, Holds, Stages, Emptied, Stored, NothingLost, Resyncs, TypeOK, Rows
<1>4. CASE AdoptClears
  BY <1>4 DEF AdoptClears, Locked, Holds, Stages, Emptied, Stored, NothingLost, Resyncs, TypeOK, Rows
<1>5. CASE RailsOpens
  BY <1>5 DEF RailsOpens, Locked, Holds, Stages, Emptied, Stored, NothingLost, Resyncs, TypeOK, Rows
<1>6. ASSUME NEW r \in Rows, RailsEnqueues(r) PROVE Stored'
  BY <1>6 DEF RailsEnqueues, Locked, Holds, Stages, Emptied, Stored, NothingLost, Resyncs, TypeOK, Rows
<1>7. ASSUME NEW r \in Rows, RailsClaims(r) PROVE Stored'
  BY <1>7 DEF RailsClaims, Locked, Holds, Stages, Emptied, Stored, NothingLost, Resyncs, TypeOK, Rows
<1>8. CASE RailsRuns
  BY <1>8 DEF RailsRuns, Locked, Holds, Stages, Emptied, Stored, NothingLost, Resyncs, TypeOK, Rows
<1>9. CASE RailsParks
  BY <1>9 DEF RailsParks, Locked, Holds, Stages, Emptied, Stored, NothingLost, Resyncs, TypeOK, Rows
<1>10. CASE RailsFinishes
  BY <1>10 DEF RailsFinishes, Locked, Holds, Stages, Emptied, Stored, NothingLost, Resyncs, TypeOK, Rows
<1>11. CASE RailsPrunes
  BY <1>11 DEF RailsPrunes, Locked, Holds, Stages, Emptied, Stored, NothingLost, Resyncs, TypeOK, Rows
<1>12. CASE RailsDies
  BY <1>12 DEF RailsDies, Locked, Holds, Stages, Emptied, Stored, NothingLost, Resyncs, TypeOK, Rows
<1>13. ASSUME NEW p \in Processes, Locks(p) PROVE Stored'
  BY <1>13 DEF Locks, Locked, Holds, Stages, Emptied, Stored, NothingLost, Resyncs, TypeOK, Rows
<1>14. ASSUME NEW p \in Processes, Refuses(p) PROVE Stored'
  BY <1>14 DEF Refuses, Locked, Holds, Stages, Emptied, Stored, NothingLost, Resyncs, TypeOK, Rows
<1>15. ASSUME NEW p \in Processes, Claims(p) PROVE Stored'
  BY <1>15 DEF Claims, Locked, Holds, Stages, Emptied, Stored, NothingLost, Resyncs, TypeOK, Rows, Stopped, Ambiguous, Imported, Unfinished
<1>16. ASSUME NEW p \in Processes, DeletesImported(p) PROVE Stored'
  BY <1>16 DEF DeletesImported, Locked, Holds, Stages, Emptied, Stored, NothingLost, Resyncs, TypeOK, Rows
<1>17. ASSUME NEW p \in Processes, ClearsImport(p) PROVE Stored'
  BY <1>17 DEF ClearsImport, Locked, Holds, Stages, Emptied, Stored, NothingLost, Resyncs, TypeOK, Rows
<1>18. ASSUME NEW p \in Processes, HandExpires(p) PROVE Stored'
  BY <1>18 DEF HandExpires, Locked, Holds, Stages, Emptied, Stored, NothingLost, Resyncs, TypeOK, Rows
<1>19. ASSUME NEW p \in Processes, DeletesDone(p) PROVE Stored'
  BY <1>19 DEF DeletesDone, Locked, Holds, Stages, Emptied, Stored, NothingLost, Resyncs, TypeOK, Rows
<1>20. ASSUME NEW p \in Processes, ClearsDone(p) PROVE Stored'
  BY <1>20 DEF ClearsDone, Locked, Holds, Stages, Emptied, Stored, NothingLost, Resyncs, TypeOK, Rows
<1>21. ASSUME NEW p \in Processes, MarksResyncs(p) PROVE Stored'
  BY <1>21 DEF MarksResyncs, Locked, Holds, Stages, Emptied, Stored, NothingLost, Resyncs, TypeOK, Rows
<1>22. ASSUME NEW p \in Processes, DeletesResyncs(p) PROVE Stored'
  BY <1>22 DEF DeletesResyncs, Locked, Holds, Stages, Emptied, Stored, NothingLost, Resyncs, TypeOK, Rows
<1>23. ASSUME NEW p \in Processes, RunsCall(p) PROVE Stored'
  BY <1>23 DEF RunsCall, Locked, Holds, Stages, Emptied, Stored, NothingLost, Resyncs, TypeOK, Rows
<1>24. ASSUME NEW p \in Processes, RunsResync(p) PROVE Stored'
  BY <1>24 DEF RunsResync, Locked, Holds, Stages, Emptied, Stored, NothingLost, Resyncs, TypeOK, Rows
<1>25. ASSUME NEW p \in Processes, EngineReturns(p) PROVE Stored'
  BY <1>25 DEF EngineReturns, Locked, Holds, Stages, Emptied, Stored, NothingLost, Resyncs, TypeOK, Rows
<1>26. ASSUME NEW p \in Processes, HandsBack(p) PROVE Stored'
  BY <1>26 DEF HandsBack, Locked, Holds, Stages, Emptied, Stored, NothingLost, Resyncs, TypeOK, Rows
<1>27. ASSUME NEW p \in Processes, Ends(p) PROVE Stored'
  BY <1>27 DEF Ends, Locked, Holds, Stages, Emptied, Stored, NothingLost, Resyncs, TypeOK, Rows
<1>28. CASE UNCHANGED <<rails, proc, queue, journal, calls, owed, outcomes>>
  BY <1>28 DEF Locked, Holds, Stages, Emptied, Stored, NothingLost, Resyncs, TypeOK, Rows
<1> QED
  BY <1>1, <1>2, <1>3, <1>4, <1>5, <1>6, <1>7, <1>8, <1>9, <1>10, <1>11, <1>12, <1>13, <1>14, <1>15, <1>16, <1>17, <1>18, <1>19, <1>20, <1>21, <1>22, <1>23, <1>24, <1>25, <1>26, <1>27, <1>28
  DEF Next, RailsActs, RustActs, Finishes, vars, RailsWritesLine, RailsPullsIndex, AttestsRanking, OwnerResolves

\* A journalled row is not acted on again, an imported call is not Rails' to place.
LEMMA ActedStep ==
  ASSUME TypeOK, Locked, Stages, Emptied, Acted, [Next]_vars
  PROVE  Acted'
<1> USE RowsAreApart, AgentsAreApart, NoneIsNoRow, BoundsAssumption DEF install, At, Goes
<1>1. CASE RailsLocks
  BY <1>1 DEF RailsLocks, Locked, Holds, Stages, Emptied, Acted, ActedOnce, TypeOK, Rows
<1>2. CASE RailsRefuses
  BY <1>2 DEF RailsRefuses, Locked, Holds, Stages, Emptied, Acted, ActedOnce, TypeOK, Rows
<1>3. CASE AdoptEnqueues
  BY <1>3 DEF AdoptEnqueues, Locked, Holds, Stages, Emptied, Acted, ActedOnce, TypeOK, Rows
<1>4. CASE AdoptClears
  BY <1>4 DEF AdoptClears, Locked, Holds, Stages, Emptied, Acted, ActedOnce, TypeOK, Rows
<1>5. CASE RailsOpens
  BY <1>5 DEF RailsOpens, Locked, Holds, Stages, Emptied, Acted, ActedOnce, TypeOK, Rows
<1>6. ASSUME NEW r \in Rows, RailsEnqueues(r) PROVE Acted'
  BY <1>6 DEF RailsEnqueues, Locked, Holds, Stages, Emptied, Acted, ActedOnce, TypeOK, Rows
<1>7. ASSUME NEW r \in Rows, RailsClaims(r) PROVE Acted'
  BY <1>7 DEF RailsClaims, Locked, Holds, Stages, Emptied, Acted, ActedOnce, TypeOK, Rows
<1>8. CASE RailsRuns
  BY <1>8 DEF RailsRuns, Locked, Holds, Stages, Emptied, Acted, ActedOnce, TypeOK, Rows
<1>9. CASE RailsParks
  BY <1>9 DEF RailsParks, Locked, Holds, Stages, Emptied, Acted, ActedOnce, TypeOK, Rows
<1>10. CASE RailsFinishes
  BY <1>10 DEF RailsFinishes, Locked, Holds, Stages, Emptied, Acted, ActedOnce, TypeOK, Rows
<1>11. CASE RailsPrunes
  BY <1>11 DEF RailsPrunes, Locked, Holds, Stages, Emptied, Acted, ActedOnce, TypeOK, Rows
<1>12. CASE RailsDies
  BY <1>12 DEF RailsDies, Locked, Holds, Stages, Emptied, Acted, ActedOnce, TypeOK, Rows
<1>13. ASSUME NEW p \in Processes, Locks(p) PROVE Acted'
  BY <1>13 DEF Locks, Locked, Holds, Stages, Emptied, Acted, ActedOnce, TypeOK, Rows
<1>14. ASSUME NEW p \in Processes, Refuses(p) PROVE Acted'
  BY <1>14 DEF Refuses, Locked, Holds, Stages, Emptied, Acted, ActedOnce, TypeOK, Rows
<1>15. ASSUME NEW p \in Processes, Claims(p) PROVE Acted'
  BY <1>15 DEF Claims, Locked, Holds, Stages, Emptied, Acted, ActedOnce, TypeOK, Rows, Stopped, Ambiguous, Imported, Unfinished
<1>16. ASSUME NEW p \in Processes, DeletesImported(p) PROVE Acted'
  BY <1>16 DEF DeletesImported, Locked, Holds, Stages, Emptied, Acted, ActedOnce, TypeOK, Rows
<1>17. ASSUME NEW p \in Processes, ClearsImport(p) PROVE Acted'
  BY <1>17 DEF ClearsImport, Locked, Holds, Stages, Emptied, Acted, ActedOnce, TypeOK, Rows
<1>18. ASSUME NEW p \in Processes, HandExpires(p) PROVE Acted'
  BY <1>18 DEF HandExpires, Locked, Holds, Stages, Emptied, Acted, ActedOnce, TypeOK, Rows
<1>19. ASSUME NEW p \in Processes, DeletesDone(p) PROVE Acted'
  BY <1>19 DEF DeletesDone, Locked, Holds, Stages, Emptied, Acted, ActedOnce, TypeOK, Rows
<1>20. ASSUME NEW p \in Processes, ClearsDone(p) PROVE Acted'
  BY <1>20 DEF ClearsDone, Locked, Holds, Stages, Emptied, Acted, ActedOnce, TypeOK, Rows
<1>21. ASSUME NEW p \in Processes, MarksResyncs(p) PROVE Acted'
  BY <1>21 DEF MarksResyncs, Locked, Holds, Stages, Emptied, Acted, ActedOnce, TypeOK, Rows
<1>22. ASSUME NEW p \in Processes, DeletesResyncs(p) PROVE Acted'
  BY <1>22 DEF DeletesResyncs, Locked, Holds, Stages, Emptied, Acted, ActedOnce, TypeOK, Rows
<1>23. ASSUME NEW p \in Processes, RunsCall(p) PROVE Acted'
  BY <1>23 DEF RunsCall, Locked, Holds, Stages, Emptied, Acted, ActedOnce, TypeOK, Rows
<1>24. ASSUME NEW p \in Processes, RunsResync(p) PROVE Acted'
  BY <1>24 DEF RunsResync, Locked, Holds, Stages, Emptied, Acted, ActedOnce, TypeOK, Rows
<1>25. ASSUME NEW p \in Processes, EngineReturns(p) PROVE Acted'
  BY <1>25 DEF EngineReturns, Locked, Holds, Stages, Emptied, Acted, ActedOnce, TypeOK, Rows
<1>26. ASSUME NEW p \in Processes, HandsBack(p) PROVE Acted'
  BY <1>26 DEF HandsBack, Locked, Holds, Stages, Emptied, Acted, ActedOnce, TypeOK, Rows
<1>27. ASSUME NEW p \in Processes, Ends(p) PROVE Acted'
  BY <1>27 DEF Ends, Locked, Holds, Stages, Emptied, Acted, ActedOnce, TypeOK, Rows
<1>28. CASE UNCHANGED <<rails, proc, queue, journal, calls, outcomes>>
  BY <1>28 DEF Locked, Holds, Stages, Emptied, Acted, ActedOnce, TypeOK, Rows
<1> QED
  BY <1>1, <1>2, <1>3, <1>4, <1>5, <1>6, <1>7, <1>8, <1>9, <1>10, <1>11, <1>12, <1>13, <1>14, <1>15, <1>16, <1>17, <1>18, <1>19, <1>20, <1>21, <1>22, <1>23, <1>24, <1>25, <1>26, <1>27, <1>28
  DEF Next, RailsActs, RustActs, Finishes, vars, RailsWritesLine, RailsPullsIndex, AttestsRanking, OwnerResolves

\* Whoever closes the window collects what lies in it; a handback runs only when it is closed.
LEMMA WindowStep ==
  ASSUME ~Again, TypeOK, Locked, Stages, Window, [Next]_vars
  PROVE  Window'
<1> USE RowsAreApart, AgentsAreApart, NoneIsNoRow, BoundsAssumption DEF install, At, Goes
<1>1. CASE RailsLocks
  BY <1>1 DEF RailsLocks, Locked, Holds, Stages, Window, NewOwnership, TypeOK, Times, Steps
<1>2. CASE RailsRefuses
  BY <1>2 DEF RailsRefuses, Locked, Holds, Stages, Window, NewOwnership, TypeOK, Times, Steps
<1>3. CASE AdoptEnqueues
  BY <1>3 DEF AdoptEnqueues, Locked, Holds, Stages, Window, NewOwnership, TypeOK, Times, Steps
<1>4. CASE AdoptClears
  BY <1>4 DEF AdoptClears, Locked, Holds, Stages, Window, NewOwnership, TypeOK, Times, Steps
<1>5. CASE RailsOpens
  BY <1>5 DEF RailsOpens, Locked, Holds, Stages, Window, NewOwnership, TypeOK, Times, Steps
<1>6. ASSUME NEW r \in Rows, RailsClaims(r) PROVE Window'
  BY <1>6 DEF RailsClaims, Locked, Holds, Stages, Window, NewOwnership, TypeOK, Times, Steps
<1>7. CASE RailsRuns
  BY <1>7 DEF RailsRuns, Locked, Holds, Stages, Window, NewOwnership, TypeOK, Times, Steps
<1>8. CASE RailsParks
  BY <1>8 DEF RailsParks, Locked, Holds, Stages, Window, NewOwnership, TypeOK, Times, Steps
<1>9. CASE RailsFinishes
  BY <1>9 DEF RailsFinishes, Locked, Holds, Stages, Window, NewOwnership, TypeOK, Times, Steps
<1>10. CASE RailsWritesLine
  BY <1>10 DEF RailsWritesLine, Locked, Holds, Stages, Window, NewOwnership, TypeOK, Times, Steps
<1>11. CASE RailsPullsIndex
  BY <1>11 DEF RailsPullsIndex, Locked, Holds, Stages, Window, NewOwnership, TypeOK, Times, Steps
<1>12. CASE RailsDies
  BY <1>12 DEF RailsDies, Locked, Holds, Stages, Window, NewOwnership, TypeOK, Times, Steps
<1>13. ASSUME NEW p \in Processes, Locks(p) PROVE Window'
  BY <1>13 DEF Locks, Locked, Holds, Stages, Window, NewOwnership, TypeOK, Times, Steps
<1>14. ASSUME NEW p \in Processes, Refuses(p) PROVE Window'
  BY <1>14 DEF Refuses, Locked, Holds, Stages, Window, NewOwnership, TypeOK, Times, Steps
<1>15. ASSUME NEW p \in Processes, Claims(p) PROVE Window'
  BY <1>15 DEF Claims, Locked, Holds, Stages, Window, NewOwnership, TypeOK, Times, Steps
<1>16. ASSUME NEW p \in Processes, ClearsImport(p) PROVE Window'
  BY <1>16 DEF ClearsImport, Locked, Holds, Stages, Window, NewOwnership, TypeOK, Times, Steps
<1>17. ASSUME NEW p \in Processes, HandExpires(p) PROVE Window'
  BY <1>17 DEF HandExpires, Locked, Holds, Stages, Window, NewOwnership, TypeOK, Times, Steps
<1>18. ASSUME NEW p \in Processes, ClearsDone(p) PROVE Window'
  BY <1>18 DEF ClearsDone, Locked, Holds, Stages, Window, NewOwnership, TypeOK, Times, Steps
<1>19. ASSUME NEW p \in Processes, MarksResyncs(p) PROVE Window'
  BY <1>19 DEF MarksResyncs, Locked, Holds, Stages, Window, NewOwnership, TypeOK, Times, Steps
<1>20. ASSUME NEW p \in Processes, DeletesResyncs(p) PROVE Window'
  BY <1>20 DEF DeletesResyncs, Locked, Holds, Stages, Window, NewOwnership, TypeOK, Times, Steps
<1>21. ASSUME NEW p \in Processes, AttestsRanking(p) PROVE Window'
  BY <1>21 DEF AttestsRanking, Locked, Holds, Stages, Window, NewOwnership, TypeOK, Times, Steps
<1>22. ASSUME NEW p \in Processes, EngineReturns(p) PROVE Window'
  BY <1>22 DEF EngineReturns, Locked, Holds, Stages, Window, NewOwnership, TypeOK, Times, Steps
<1>23. ASSUME NEW p \in Processes, HandsBack(p) PROVE Window'
  BY <1>23 DEF HandsBack, Locked, Holds, Stages, Window, NewOwnership, TypeOK, Times, Steps
<1>24. ASSUME NEW p \in Processes, Ends(p) PROVE Window'
  BY <1>24 DEF Ends, Locked, Holds, Stages, Window, NewOwnership, TypeOK, Times, Steps
<1>25. CASE UNCHANGED <<now, lease, stamps, rails, proc, ranked, lines>>
  BY <1>25 DEF Locked, Holds, Stages, Window, NewOwnership, TypeOK, Times, Steps
<1> QED
  BY <1>1, <1>2, <1>3, <1>4, <1>5, <1>6, <1>7, <1>8, <1>9, <1>10, <1>11, <1>12, <1>13, <1>14, <1>15, <1>16, <1>17, <1>18, <1>19, <1>20, <1>21, <1>22, <1>23, <1>24, <1>25
  DEF Next, RailsActs, RustActs, Finishes, vars, RailsEnqueues, RailsPrunes, DeletesImported, DeletesDone, RunsCall, RunsResync, OwnerResolves

-----------------------------------------------------------------------------
IInv == TypeOK /\ Locked /\ Stages /\ Emptied /\ Stored /\ Acted

LEMMA InitInv == Init /\ TypeOK => IInv /\ Window
<1> SUFFICES ASSUME Init, TypeOK PROVE IInv /\ Window
  OBVIOUS
<1>1. Locked BY DEF Init, Locked, Holds
<1>2. Stages BY DEF Init, Stages
<1>3. Emptied BY DEF Init, Emptied
<1>4. Stored BY DEF Init, Stored, NothingLost, At
<1>5. Acted BY DEF Init, Acted, ActedOnce, Rows
<1>6. Window BY DEF Init, Window, NewOwnership, Holds
<1> QED BY <1>1, <1>2, <1>3, <1>4, <1>5, <1>6 DEF IInv

LEMMA InitTyped == Init => TypeOK
<1> SUFFICES ASSUME Init PROVE TypeOK
  OBVIOUS
<1>1. now \in Times /\ stamps \in [back : Times, taken : Times]
      /\ lines \in [written : SUBSET Times, found : SUBSET Times] /\ lease \in {"absent", "rust"}
  BY BoundsAssumption DEF Init, Times
<1>2. outcomes \in [acted : [Rows -> Nat], placed : [Calls -> Nat], answered : SUBSET Rows]
  BY DEF Init
<1>3. proc \in [Processes -> [pc : Steps, job : {"serve", "handback"}]]
  BY DEF Init, Steps
<1> QED BY <1>1, <1>2, <1>3 DEF Init, TypeOK

LEMMA Invariance == Spec => []IInv
<1>1. Init => IInv
  BY InitTyped, InitInv
<1>2. IInv /\ [Next]_vars => IInv'
  BY Typed, LockedStep, StagesStep, EmptiedStep, StoredStep, ActedStep DEF IInv
<1> QED BY <1>1, <1>2, PTL DEF Spec

\* Every variable of the handover keeps its type.
THEOREM HandoverTyped == Spec => []TypeOK
<1>1. IInv => TypeOK
  BY DEF IInv
<1> QED BY Invariance, <1>1, PTL

\* Rails and a Rust process, or two Rust processes, never act on one install (lease.rs, lock;
\* 00_engine_lock.rb).
THEOREM NeverTwoEngines == Spec => []OneEngine
<1>1. IInv => OneEngine
  BY AgentsAreApart DEF IInv, Locked, OneEngine
<1> QED BY Invariance, <1>1, PTL

\* No takeover acts on a row an earlier one has acted on, and no call is placed twice
\* (handover.rs, queue_work, apply_queue_work, import_signal_jobs).
THEOREM RowsActedOnce == Spec => []ActedOnce
<1>1. IInv => ActedOnce
  BY DEF IInv, Acted
<1> QED BY Invariance, <1>1, PTL

\* A row leaves the queue only when it was done or is stored on its bot (handover.rs,
\* finish_queue_work, finish_signal_import, take_over).
THEOREM RowsKept == Spec => []NothingLost
<1>1. IInv => NothingLost
  BY DEF IInv, Stored
<1> QED BY Invariance, <1>1, PTL

\* Rails gets back neither a row a takeover acted on nor a call Rust holds (handover.rs,
\* hand_back_since, hand_back_calls).
THEOREM HandbackClean == Spec => []HandedClean
<1>1. IInv => HandedClean
  BY DEF IInv, Stages, Emptied, Acted, HandedClean
<1> QED BY Invariance, <1>1, PTL

\* Where no handback is run on an install Rust does not own, the window is closed before
\* the engine runs (lease.rs, claim; handover.rs, take_over; rails_unrecorded.rs, collect).
THEOREM WindowShut == ASSUME ~Again PROVE Spec => []WindowClosed
<1>1. Init => IInv /\ Window
  BY InitTyped, InitInv
<1>2. IInv /\ Window /\ [Next]_vars => IInv' /\ Window'
  BY Typed, LockedStep, StagesStep, EmptiedStep, StoredStep, ActedStep, WindowStep DEF IInv
<1>3. IInv /\ Window => WindowClosed
  BY DEF IInv, Window, WindowClosed, WindowCollected, At, Holds
<1> QED BY <1>1, <1>2, <1>3, PTL DEF Spec

\* The two engines implement the ownership of the install: Rails opens only what Rust does
\* not own, Rust runs only on what it has claimed.
THEOREM ImplementsOwnership == Spec => OwnershipHolds
<1>1. Init => Owned!Init
  BY DEF Init, Owned!Init, Owner, Actor, At
<1>2. IInv /\ IInv' /\ [Next]_vars => [Owned!Next]_<<Owner, Actor>>
  <2> SUFFICES ASSUME IInv, IInv', [Next]_vars PROVE [Owned!Next]_<<Owner, Actor>>
    OBVIOUS
  <2> USE AgentsAreApart
  <2> DEFINE Runs == \E p \in Processes : At(p, "running")
  <2>1. /\ rails.pc = "up" => lease = "absent" /\ ~Runs
        /\ Runs => lease = "rust" /\ rails.pc = "down"
        /\ \A p \in Processes : Holds(p) =>
             rails.pc = "down" /\ \A q \in Processes : At(q, "running") => q = p
    BY DEF IInv, Locked, Stages, Holds, At
  <2>2. rails'.pc = "up" => ~Runs'
    BY DEF IInv, Locked, Holds, At
  <2>3. Actor = IF rails.pc = "up" THEN "rails" ELSE IF Runs THEN "rust" ELSE "nobody"
    <3>1. CASE rails.pc = "up" BY <2>1, <3>1 DEF Actor
    <3>2. CASE Runs BY <2>1, <3>2 DEF Actor
    <3>3. CASE rails.pc # "up" /\ ~Runs BY <3>3 DEF Actor
    <3> QED BY <2>1, <3>1, <3>2, <3>3
  <2>4. Actor' = IF rails'.pc = "up" THEN "rails" ELSE IF Runs' THEN "rust" ELSE "nobody"
    <3>1. CASE rails'.pc = "up" BY <2>2, <3>1 DEF Actor
    <3>2. CASE Runs' BY <2>2, <3>2 DEF Actor
    <3>3. CASE rails'.pc # "up" /\ ~Runs' BY <3>3 DEF Actor
    <3> QED BY <2>2, <3>1, <3>2, <3>3
  <2>5. /\ Owner = IF lease = "rust" THEN "rust" ELSE IF lease = "handed" THEN "released" ELSE "rails"
        /\ Owner' = IF lease' = "rust" THEN "rust" ELSE IF lease' = "handed" THEN "released" ELSE "rails"
    BY DEF Owner
  <2> HIDE DEF Runs
  <2> USE DEF Owned!Next, Owned!RailsStarts, Owned!RustClaims, Owned!RustStarts, Owned!RustReleases, Owned!Stops
  \* The steps of the abstract specification.
  <2>6. CASE RailsOpens
    <3>1. ~Runs /\ rails'.pc = "up" /\ rails.pc = "booting" /\ lease # "rust" /\ lease' = "absent"
      BY <2>1, <2>6 DEF RailsOpens, IInv, TypeOK
    <3> QED BY <2>3, <2>4, <2>5, <3>1
  <2>7. ASSUME NEW p \in Processes, Claims(p) PROVE [Owned!Next]_<<Owner, Actor>>
    <3>1. Holds(p) /\ ~At(p, "running") /\ UNCHANGED rails /\ lease' = "rust"
          /\ proc' = [proc EXCEPT ![p].pc = "claimed"]
      BY <2>7 DEF Claims, At, Goes, Holds
    <3>2. ~Runs /\ ~Runs'
      BY <2>1, <3>1 DEF Runs, At, IInv, TypeOK
    <3> QED BY <2>1, <2>3, <2>4, <2>5, <3>1, <3>2
  <2>8. ASSUME NEW p \in Processes, HandsBack(p) PROVE [Owned!Next]_<<Owner, Actor>>
    <3>1. Holds(p) /\ ~At(p, "running") /\ UNCHANGED rails /\ lease' = "handed"
          /\ proc' = [proc EXCEPT ![p].pc = "serving"]
      BY <2>8 DEF HandsBack, At, Goes, Holds
    <3>2. ~Runs /\ ~Runs'
      BY <2>1, <3>1 DEF Runs, At, IInv, TypeOK
    <3> QED BY <2>1, <2>3, <2>4, <2>5, <3>1, <3>2
  <2>9. ASSUME NEW p \in Processes, DeletesResyncs(p) PROVE [Owned!Next]_<<Owner, Actor>>
    <3>1. Holds(p) /\ ~At(p, "running") /\ UNCHANGED <<rails, lease>> /\ lease = "rust"
      BY <2>9 DEF DeletesResyncs, At, Holds, install, IInv, Stages
    <3>2. ~Runs /\ rails.pc = "down"
      BY <2>1, <3>1 DEF Runs
    <3> QED BY <2>3, <2>4, <2>5, <3>1, <3>2
  <2>10. ASSUME NEW p \in Processes, EngineReturns(p) \/ Ends(p) PROVE [Owned!Next]_<<Owner, Actor>>
    <3>1. UNCHANGED <<rails, lease>>
      BY <2>10 DEF EngineReturns, Ends, install
    <3>2. Runs' => Runs
      BY <2>10 DEF EngineReturns, Ends, Goes, At, Runs, IInv, TypeOK
    <3> QED BY <2>3, <2>4, <2>5, <3>1, <3>2
  <2>11. CASE RailsDies
    <3>1. UNCHANGED <<proc, lease>> /\ rails'.pc = "down"
      BY <2>11 DEF RailsDies
    <3>2. Runs' <=> Runs
      BY <3>1 DEF Runs, At
    <3> QED BY <2>1, <2>3, <2>4, <2>5, <3>1, <3>2
  \* The others leave owner and actor alone.
  <2>12. ASSUME UNCHANGED lease, Runs' <=> Runs, rails'.pc = "up" <=> rails.pc = "up"
         PROVE  [Owned!Next]_<<Owner, Actor>>
    BY <2>3, <2>4, <2>5, <2>12
  <2>13. ASSUME NEW p \in Processes,
                \/ Locks(p) \/ Refuses(p) \/ DeletesImported(p) \/ ClearsImport(p) \/ HandExpires(p)
                \/ DeletesDone(p) \/ ClearsDone(p) \/ MarksResyncs(p) \/ RunsCall(p) \/ RunsResync(p)
                \/ AttestsRanking(p) \/ OwnerResolves(p)
         PROVE  [Owned!Next]_<<Owner, Actor>>
    <3>1. UNCHANGED <<rails, lease>>
      BY <2>13 DEF Locks, Refuses, DeletesImported, ClearsImport, HandExpires, DeletesDone, ClearsDone,
                   MarksResyncs, RunsCall, RunsResync, AttestsRanking, OwnerResolves, install
    <3>2. \/ UNCHANGED proc
          \/ ~At(p, "running") /\ proc'[p].pc # "running" /\ \A q \in Processes \ {p} : proc'[q] = proc[q]
      <4>1. CASE DeletesImported(p) \/ DeletesDone(p) \/ RunsCall(p) \/ RunsResync(p)
                 \/ AttestsRanking(p) \/ OwnerResolves(p)
        BY <4>1 DEF DeletesImported, DeletesDone, RunsCall, RunsResync, AttestsRanking, OwnerResolves
      <4>2. CASE Locks(p)
        BY <4>2 DEF Locks, At, IInv, TypeOK
      <4>3. CASE Refuses(p) \/ ClearsImport(p) \/ HandExpires(p) \/ ClearsDone(p) \/ MarksResyncs(p)
        <5>1. ~At(p, "running") /\ \E step \in Steps \ {"running"} : Goes(p, step)
          BY <4>3 DEF Refuses, ClearsImport, HandExpires, ClearsDone, MarksResyncs, At, Steps
        <5> QED BY <5>1 DEF Goes, IInv, TypeOK
      <4> QED BY <2>13, <4>1, <4>2, <4>3
    <3>3. Runs' <=> Runs
      BY <3>2 DEF Runs, At
    <3> QED BY <2>12, <3>1, <3>3
  <2>14. ASSUME \/ RailsLocks \/ RailsRefuses \/ AdoptEnqueues \/ AdoptClears \/ RailsRuns \/ RailsParks
                \/ RailsFinishes \/ RailsPrunes \/ RailsWritesLine \/ RailsPullsIndex
                \/ \E r \in Rows : RailsEnqueues(r) \/ RailsClaims(r)
                \/ UNCHANGED vars
         PROVE  [Owned!Next]_<<Owner, Actor>>
    <3>1. UNCHANGED <<proc, lease>> /\ (rails'.pc = "up" <=> rails.pc = "up")
      <4>1. CASE \/ RailsPrunes \/ RailsWritesLine \/ RailsPullsIndex \/ UNCHANGED vars
                 \/ \E r \in Rows : RailsEnqueues(r)
        BY <4>1 DEF RailsPrunes, RailsWritesLine, RailsPullsIndex, RailsEnqueues, vars, install
      <4>2. CASE RailsLocks \/ RailsRefuses \/ AdoptEnqueues \/ AdoptClears
        <5>1. rails \in [pc : {"down", "booting", "enqueued", "up"}, hand : Rows \cup {None}, ran : BOOLEAN]
          BY DEF IInv, TypeOK
        <5>2. CASE RailsLocks \/ RailsRefuses
          BY <5>1, <5>2 DEF RailsLocks, RailsRefuses
        <5>3. CASE AdoptEnqueues \/ AdoptClears
          <6>1. UNCHANGED <<proc, lease>> /\ rails.pc # "up"
            BY <5>3 DEF AdoptEnqueues, AdoptClears, install
          <6>2. \/ \E b : rails' = [rails EXCEPT !.pc = "enqueued", !.hand = b]
                \/ rails' = [rails EXCEPT !.pc = "booting", !.hand = None]
            BY <5>3 DEF AdoptEnqueues, AdoptClears
          <6> QED BY <5>1, <6>1, <6>2
        <5> QED BY <4>2, <5>2, <5>3
      <4>3. CASE RailsRuns \/ RailsParks \/ RailsFinishes \/ \E r \in Rows : RailsClaims(r)
        <5>1. rails \in [pc : {"down", "booting", "enqueued", "up"}, hand : Rows \cup {None}, ran : BOOLEAN]
          BY DEF IInv, TypeOK
        <5>2. UNCHANGED <<proc, lease>>
          BY <4>3 DEF RailsRuns, RailsParks, RailsFinishes, RailsClaims, install
        <5>3. \/ rails' = [rails EXCEPT !.ran = TRUE] \/ rails' = [rails EXCEPT !.hand = None]
              \/ rails' = [rails EXCEPT !.hand = None, !.ran = FALSE]
              \/ \E r \in Rows : rails' = [rails EXCEPT !.hand = r, !.ran = FALSE]
          BY <4>3 DEF RailsRuns, RailsParks, RailsFinishes, RailsClaims
        <5> QED BY <5>1, <5>2, <5>3
      <4> QED BY <2>14, <4>1, <4>2, <4>3
    <3>2. Runs' <=> Runs
      BY <3>1 DEF Runs, At
    <3> QED BY <2>12, <3>1, <3>2
  <2> QED
    BY <2>6, <2>7, <2>8, <2>9, <2>10, <2>11, <2>13, <2>14 DEF Next, RailsActs, RustActs, Finishes
<1> QED BY Invariance, <1>1, <1>2, PTL DEF Spec, OwnershipHolds, Owned!Spec
=============================================================================
