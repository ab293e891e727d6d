---------------------- MODULE BackgroundRegistryProofs ----------------------
(***************************************************************************)
(* Proofs about BackgroundRegistry, for any number of keys, entries and    *)
(* handlers, any capacity and any set of call sites whose TerminateTree    *)
(* may fail.                                                               *)
(***************************************************************************)
EXTENDS BackgroundRegistry, FiniteSetTheorems, TLAPS

-----------------------------------------------------------------------------
(***************************************************************************)
(* The inductive invariant.                                                *)
(***************************************************************************)
Launching == {"launching", "spawning"}
Stopping  == {"stopping", "marking", "terminating", "awaiting", "removing"}

\* What a handler holds at each of its steps.
HandlerInv ==
    \A h \in Handlers :
        /\ pc[h] # "idle" => request[h] \in Requests
        /\ pc[h] \in Launching <=> mutex = h
        /\ pc[h] \in {"start"} \cup Launching => request[h].op = "start"
        /\ pc[h] \in Stopping => request[h].op = "stop"
        /\ pc[h] \in Stopping \cup {"responding"} =>
              found[h] \in Entries /\ state[found[h]] # "unused"
        /\ pc[h] = "removing" => state[found[h]] \in Terminal
        /\ pc[h] = "responding" /\ request[h].op = "stop" => state[found[h]] \in Terminal
        /\ pc[h] = "idle" /\ reply[h].status = "completed" /\ request[h].op = "stop" =>
              /\ found[h] \in Entries
              /\ state[found[h]] \in Terminal
              /\ reply[h].state \in Terminal

\* A verdict agrees with the reason and with the tree.
VerdictInv(e) ==
    /\ verdict[e].state \in Terminal
    /\ verdict[e].state # "runtime_failed" => tree[e] = "signalled"
    /\ verdict[e].state = "timed_out" => reason[e] = "timed_out"
    /\ verdict[e].state = "stopped" => reason[e] = "stopped"
    /\ verdict[e].state = "exited" => reason[e] # "timed_out"
    /\ verdict[e].code <=> verdict[e].state \in {"exited", "stopped"}
    /\ tree[e] = "alive" => /\ verdict[e].state = "runtime_failed"
                            /\ reason[e] = "timed_out"
                            /\ "lifetime" \in FailingSites

\* An entry, its monitor and its tree move together.
EntryInv ==
    \A e \in Entries :
        /\ state[e] = "unused" <=> monitor[e] = "none"
        /\ state[e] = "unused" <=> tree[e] = "none"
        /\ state[e] = "unused" => reason[e] = "none"
        /\ state[e] \in Terminal <=> monitor[e] = "over"
        /\ monitor[e] = "watching" => reason[e] # "timed_out"
        /\ monitor[e] = "terminating" => reason[e] = "timed_out"
        /\ monitor[e] = "waiting" => reason[e] = "stopped"
        /\ monitor[e] \in {"finishing", "over"} => VerdictInv(e)
        /\ monitor[e] = "over" => /\ state[e] = verdict[e].state
                                  /\ exitCode[e] = verdict[e].code

\* The map: registered entries are allocated, running entries are registered,
\* and the holder of the mutex has room for its key.
RegistryInv ==
    /\ \A k \in Keys : background[k] # NoEntry => state[background[k]] # "unused"
    /\ RunningRegistered
    /\ IsFiniteSet(Registered)
    /\ CapacityBound
    /\ \A h \in Handlers : pc[h] \in Launching =>
          /\ background[request[h].key] = NoEntry
          /\ Cardinality(Registered) < MaxBackground

\* What Close still has to reap.
CloserInv ==
    /\ closer # "idle" => cancelled /\ \A h \in Handlers : pc[h] # "spawning"
    /\ closer \in {"marking", "terminating", "awaiting"} =>
          closing \in Entries /\ state[closing] # "unused"
    /\ closer = "awaiting" => tree[closing] = "signalled"
    /\ closer = "closed" => todo = {}
    /\ closer # "idle" /\ ~closeErr =>
          \A e \in Entries : tree[e] = "alive" =>
              \/ e \in todo
              \/ closer \in {"marking", "terminating"} /\ closing = e
              \/ Abandoned(e)

\* A live tree whose entry is final was abandoned by its lifetime termination.
LEMMA AliveRuns ==
    TypeOK /\ EntryInv =>
        \A e \in Entries : tree[e] = "alive" =>
            state[e] = "running" \/ Abandoned(e)
BY DEF TypeOK, EntryInv, VerdictInv, Terminal, Abandoned

\* Registering a new key adds one to the size of the registry.
LEMMA AddOne ==
    ASSUME NEW S, NEW x, IsFiniteSet(S), x \notin S
    PROVE  /\ IsFiniteSet(S \cup {x})
           /\ Cardinality(S \cup {x}) = Cardinality(S) + 1
           /\ Cardinality(S) \in Nat
BY FS_AddElement, FS_CardinalityType

IInv == TypeOK /\ HandlerInv /\ EntryInv /\ RegistryInv /\ CloserInv

-----------------------------------------------------------------------------
(***************************************************************************)
(* Each part of the invariant is preserved by every step.                  *)
(***************************************************************************)
\* Every step of the registry keeps its variables in their types.
LEMMA TypeStep == TypeOK /\ HandlerInv /\ EntryInv /\ [Next \/ Terminated]_vars => TypeOK'
<1> SUFFICES ASSUME TypeOK /\ HandlerInv /\ EntryInv, [Next \/ Terminated]_vars PROVE TypeOK'
  OBVIOUS
<1> USE DEF TypeOK, entryVars, monitorVars, handlerVars, closerVars, Terminal, Reasons, Verdicts, Requests, Operations, Replies, HandlerSteps, MonitorSteps, CloserSteps, TreeStates, NoReply, Denied, StopFailed
<1>1. ASSUME NEW h \in Handlers, NEW req \in Requests, Begin(h, req) PROVE TypeOK'
  BY <1>1 DEF Begin
<1>2. ASSUME NEW h \in Handlers, StartDenied(h) PROVE TypeOK'
  BY <1>2 DEF StartDenied, Answer
<1>3. ASSUME NEW h \in Handlers, StartAdmitted(h) PROVE TypeOK'
  BY <1>3 DEF StartAdmitted, Goto
<1>4. ASSUME NEW h \in Handlers, LaunchResolves(h) PROVE TypeOK'
  BY <1>4 DEF LaunchResolves, Goto
<1>5. ASSUME NEW h \in Handlers, LaunchFails(h) PROVE TypeOK'
  BY <1>5 DEF LaunchFails, Answer
<1>6. ASSUME NEW h \in Handlers, NEW e \in Entries, Spawn(h, e) PROVE TypeOK'
  <2>1. request[h] \in Requests
    BY <1>6 DEF Spawn, HandlerInv
  <2> QED
    BY <1>6, <2>1 DEF Spawn
<1>7. ASSUME NEW h \in Handlers, NotFound(h) PROVE TypeOK'
  BY <1>7 DEF NotFound, Answer
<1>8. ASSUME NEW h \in Handlers, Find(h) PROVE TypeOK'
  <2>1. request[h] \in Requests
    BY <1>8 DEF Find, HandlerInv
  <2> QED
    BY <1>8, <2>1 DEF Find, Owns
<1>9. ASSUME NEW h \in Handlers, StopChecks(h) PROVE TypeOK'
  BY <1>9 DEF StopChecks, Goto
<1>10. ASSUME NEW h \in Handlers, StopMarks(h) PROVE TypeOK'
  BY <1>10 DEF StopMarks, Goto, SetReason
<1>11. ASSUME NEW h \in Handlers, StopTerminated(h) PROVE TypeOK'
  BY <1>11 DEF StopTerminated, Goto, TerminateReturnsNil
<1>12. ASSUME NEW h \in Handlers, StopTerminateFails(h) PROVE TypeOK'
  BY <1>12 DEF StopTerminateFails, Answer
<1>13. ASSUME NEW h \in Handlers, StopSettles(h) PROVE TypeOK'
  BY <1>13 DEF StopSettles, Goto
<1>14. ASSUME NEW h \in Handlers, StopCancelled(h) PROVE TypeOK'
  BY <1>14 DEF StopCancelled, Answer
<1>15. ASSUME NEW h \in Handlers, Remove(h) PROVE TypeOK'
  BY <1>15 DEF Remove, Goto
<1>16. ASSUME NEW h \in Handlers, Respond(h) PROVE TypeOK'
  <2>1. found[h] \in Entries /\ state[found[h]] \in Terminal \cup {"running"}
    BY <1>16 DEF Respond, HandlerInv
  <2> QED
    BY <1>16, <2>1 DEF Respond, Answer
<1>17. ASSUME NEW e \in Entries, NEW clean \in BOOLEAN, MonitorExit(e, clean) PROVE TypeOK'
  BY <1>17 DEF MonitorExit, ExitVerdict
<1>18. ASSUME NEW e \in Entries, NEW clean \in BOOLEAN, MonitorLateExit(e, clean) PROVE TypeOK'
  <2>1. reason[e] = "stopped"
    BY <1>18 DEF MonitorLateExit, EntryInv
  <2> QED
    BY <1>18, <2>1 DEF MonitorLateExit, ExitVerdict
<1>19. ASSUME NEW e \in Entries, LifetimeExpires(e) PROVE TypeOK'
  BY <1>19 DEF LifetimeExpires, SetReason
<1>20. ASSUME NEW e \in Entries, LifetimeTerminated(e) PROVE TypeOK'
  BY <1>20 DEF LifetimeTerminated, TerminateReturnsNil
<1>21. ASSUME NEW e \in Entries, LifetimeTerminateFails(e) PROVE TypeOK'
  BY <1>21 DEF LifetimeTerminateFails, TerminateReturnsError
<1>22. ASSUME NEW e \in Entries, Finish(e) PROVE TypeOK'
  <2>1. verdict[e].state \in Terminal
    BY <1>22 DEF Finish, EntryInv, VerdictInv
  <2> QED
    BY <1>22, <2>1 DEF Finish
<1>23. ASSUME NEW e \in Entries, TreeReaped(e) PROVE TypeOK'
  BY <1>23 DEF TreeReaped
<1>24. ASSUME NEW e \in Entries, TreeSignals(e) PROVE TypeOK'
  BY <1>24 DEF TreeSignals
<1>25. ASSUME Cancel PROVE TypeOK'
  BY <1>25 DEF Cancel
<1>26. ASSUME CloseSnapshots PROVE TypeOK'
  BY <1>26 DEF CloseSnapshots, Registered
<1>27. ASSUME NEW e \in Entries, CloseNext(e) PROVE TypeOK'
  BY <1>27 DEF CloseNext
<1>28. ASSUME CloseMarks PROVE TypeOK'
  BY <1>28 DEF CloseMarks, SetReason
<1>29. ASSUME CloseTerminated PROVE TypeOK'
  BY <1>29 DEF CloseTerminated, TerminateReturnsNil
<1>30. ASSUME CloseFails PROVE TypeOK'
  BY <1>30 DEF CloseFails, TerminateReturnsError
<1>31. ASSUME CloseSettles PROVE TypeOK'
  BY <1>31 DEF CloseSettles
<1>32. ASSUME CloseReturns PROVE TypeOK'
  BY <1>32 DEF CloseReturns
<1>33. CASE UNCHANGED vars
  BY <1>33 DEF vars
<1> QED
  BY <1>1, <1>2, <1>3, <1>4, <1>5, <1>6, <1>7, <1>8, <1>9, <1>10, <1>11,
     <1>12, <1>13, <1>14, <1>15, <1>16, <1>17, <1>18, <1>19, <1>20, <1>21,
     <1>22, <1>23, <1>24, <1>25, <1>26, <1>27, <1>28, <1>29, <1>30, <1>31,
     <1>32, <1>33
  DEF Next, Terminated, HandlerStep, Launch, Stop, MonitorStep, MonitorReceives, CloserStep

\* A handler keeps what its step holds: a request, the mutex, a found entry.
LEMMA HandlerStepInv == TypeOK /\ HandlerInv /\ EntryInv /\ RegistryInv /\ [Next \/ Terminated]_vars => HandlerInv'
<1> SUFFICES ASSUME TypeOK /\ HandlerInv /\ EntryInv /\ RegistryInv, [Next \/ Terminated]_vars PROVE HandlerInv'
  OBVIOUS
<1> USE DEF TypeOK, HandlerInv, entryVars, monitorVars, handlerVars, closerVars, Terminal, Launching, Stopping, NoReply, Denied, StopFailed
<1>1. ASSUME NEW h \in Handlers, NEW req \in Requests, Begin(h, req) PROVE HandlerInv'
  BY <1>1 DEF Begin
<1>2. ASSUME NEW h \in Handlers, StartDenied(h) PROVE HandlerInv'
  BY <1>2 DEF StartDenied, Answer
<1>3. ASSUME NEW h \in Handlers, StartAdmitted(h) PROVE HandlerInv'
  BY <1>3, ConstantsAssumption DEF StartAdmitted, Goto
<1>4. ASSUME NEW h \in Handlers, LaunchResolves(h) PROVE HandlerInv'
  BY <1>4 DEF LaunchResolves, Goto
<1>5. ASSUME NEW h \in Handlers, LaunchFails(h) PROVE HandlerInv'
  BY <1>5, ConstantsAssumption DEF LaunchFails, Answer
<1>6. ASSUME NEW h \in Handlers, NEW e \in Entries, Spawn(h, e) PROVE HandlerInv'
  BY <1>6, ConstantsAssumption DEF Spawn
<1>7. ASSUME NEW h \in Handlers, NotFound(h) PROVE HandlerInv'
  BY <1>7 DEF NotFound, Answer
<1>8. ASSUME NEW h \in Handlers, Find(h) PROVE HandlerInv'
  <2>1. found'[h] \in Entries /\ state[found'[h]] # "unused"
    BY <1>8 DEF Find, Owns, RegistryInv, Requests
  <2> QED
    BY <1>8, <2>1 DEF Find
<1>9. ASSUME NEW h \in Handlers, StopChecks(h) PROVE HandlerInv'
  BY <1>9 DEF StopChecks, Goto
<1>10. ASSUME NEW h \in Handlers, StopMarks(h) PROVE HandlerInv'
  BY <1>10 DEF StopMarks, Goto, SetReason
<1>11. ASSUME NEW h \in Handlers, StopTerminated(h) PROVE HandlerInv'
  BY <1>11 DEF StopTerminated, Goto, TerminateReturnsNil
<1>12. ASSUME NEW h \in Handlers, StopTerminateFails(h) PROVE HandlerInv'
  BY <1>12 DEF StopTerminateFails, Answer
<1>13. ASSUME NEW h \in Handlers, StopSettles(h) PROVE HandlerInv'
  BY <1>13 DEF StopSettles, Goto
<1>14. ASSUME NEW h \in Handlers, StopCancelled(h) PROVE HandlerInv'
  BY <1>14 DEF StopCancelled, Answer
<1>15. ASSUME NEW h \in Handlers, Remove(h) PROVE HandlerInv'
  BY <1>15 DEF Remove, Goto
<1>16. ASSUME NEW h \in Handlers, Respond(h) PROVE HandlerInv'
  BY <1>16 DEF Respond, Answer
<1>17. ASSUME NEW e \in Entries, NEW clean \in BOOLEAN, MonitorExit(e, clean) PROVE HandlerInv'
  BY <1>17 DEF MonitorExit, ExitVerdict
<1>18. ASSUME NEW e \in Entries, NEW clean \in BOOLEAN, MonitorLateExit(e, clean) PROVE HandlerInv'
  BY <1>18 DEF MonitorLateExit, ExitVerdict
<1>19. ASSUME NEW e \in Entries, LifetimeExpires(e) PROVE HandlerInv'
  BY <1>19 DEF LifetimeExpires, SetReason
<1>20. ASSUME NEW e \in Entries, LifetimeTerminated(e) PROVE HandlerInv'
  BY <1>20 DEF LifetimeTerminated, TerminateReturnsNil
<1>21. ASSUME NEW e \in Entries, LifetimeTerminateFails(e) PROVE HandlerInv'
  BY <1>21 DEF LifetimeTerminateFails, TerminateReturnsError
<1>22. ASSUME NEW e \in Entries, Finish(e) PROVE HandlerInv'
  <2>1. state'[e] \in Terminal
    BY <1>22 DEF Finish, EntryInv, VerdictInv
  <2> QED
    BY <1>22, <2>1 DEF Finish
<1>23. ASSUME NEW e \in Entries, TreeReaped(e) PROVE HandlerInv'
  BY <1>23 DEF TreeReaped
<1>24. ASSUME NEW e \in Entries, TreeSignals(e) PROVE HandlerInv'
  BY <1>24 DEF TreeSignals
<1>25. ASSUME Cancel PROVE HandlerInv'
  BY <1>25 DEF Cancel
<1>26. ASSUME CloseSnapshots PROVE HandlerInv'
  BY <1>26 DEF CloseSnapshots
<1>27. ASSUME NEW e \in Entries, CloseNext(e) PROVE HandlerInv'
  BY <1>27 DEF CloseNext
<1>28. ASSUME CloseMarks PROVE HandlerInv'
  BY <1>28 DEF CloseMarks, SetReason
<1>29. ASSUME CloseTerminated PROVE HandlerInv'
  BY <1>29 DEF CloseTerminated, TerminateReturnsNil
<1>30. ASSUME CloseFails PROVE HandlerInv'
  BY <1>30 DEF CloseFails, TerminateReturnsError
<1>31. ASSUME CloseSettles PROVE HandlerInv'
  BY <1>31 DEF CloseSettles
<1>32. ASSUME CloseReturns PROVE HandlerInv'
  BY <1>32 DEF CloseReturns
<1>33. CASE UNCHANGED vars
  BY <1>33 DEF vars
<1> QED
  BY <1>1, <1>2, <1>3, <1>4, <1>5, <1>6, <1>7, <1>8, <1>9, <1>10, <1>11,
     <1>12, <1>13, <1>14, <1>15, <1>16, <1>17, <1>18, <1>19, <1>20, <1>21,
     <1>22, <1>23, <1>24, <1>25, <1>26, <1>27, <1>28, <1>29, <1>30, <1>31,
     <1>32, <1>33
  DEF Next, Terminated, HandlerStep, Launch, Stop, MonitorStep, MonitorReceives, CloserStep

\* An entry, its monitor and its tree stay in agreement.
LEMMA EntryStepInv == TypeOK /\ HandlerInv /\ EntryInv /\ CloserInv /\ [Next \/ Terminated]_vars => EntryInv'
<1> SUFFICES ASSUME TypeOK /\ HandlerInv /\ EntryInv /\ CloserInv, [Next \/ Terminated]_vars PROVE EntryInv'
  OBVIOUS
<1> USE DEF TypeOK, EntryInv, VerdictInv, entryVars, monitorVars, handlerVars, closerVars, Terminal
<1>1. ASSUME NEW h \in Handlers, NEW req \in Requests, Begin(h, req) PROVE EntryInv'
  BY <1>1 DEF Begin
<1>2. ASSUME NEW h \in Handlers, StartDenied(h) PROVE EntryInv'
  BY <1>2 DEF StartDenied, Answer
<1>3. ASSUME NEW h \in Handlers, StartAdmitted(h) PROVE EntryInv'
  BY <1>3 DEF StartAdmitted, Goto
<1>4. ASSUME NEW h \in Handlers, LaunchResolves(h) PROVE EntryInv'
  BY <1>4 DEF LaunchResolves, Goto
<1>5. ASSUME NEW h \in Handlers, LaunchFails(h) PROVE EntryInv'
  BY <1>5 DEF LaunchFails, Answer
<1>6. ASSUME NEW h \in Handlers, NEW e \in Entries, Spawn(h, e) PROVE EntryInv'
  BY <1>6 DEF Spawn
<1>7. ASSUME NEW h \in Handlers, NotFound(h) PROVE EntryInv'
  BY <1>7 DEF NotFound, Answer
<1>8. ASSUME NEW h \in Handlers, Find(h) PROVE EntryInv'
  BY <1>8 DEF Find
<1>9. ASSUME NEW h \in Handlers, StopChecks(h) PROVE EntryInv'
  BY <1>9 DEF StopChecks, Goto
<1>10. ASSUME NEW h \in Handlers, StopMarks(h) PROVE EntryInv'
  <2>1. found[h] \in Entries /\ state[found[h]] # "unused"
    BY <1>10 DEF StopMarks, HandlerInv, Stopping
  <2> QED
    BY <1>10, <2>1 DEF StopMarks, Goto, SetReason
<1>11. ASSUME NEW h \in Handlers, StopTerminated(h) PROVE EntryInv'
  BY <1>11 DEF StopTerminated, Goto, TerminateReturnsNil
<1>12. ASSUME NEW h \in Handlers, StopTerminateFails(h) PROVE EntryInv'
  BY <1>12 DEF StopTerminateFails, Answer
<1>13. ASSUME NEW h \in Handlers, StopSettles(h) PROVE EntryInv'
  BY <1>13 DEF StopSettles, Goto
<1>14. ASSUME NEW h \in Handlers, StopCancelled(h) PROVE EntryInv'
  BY <1>14 DEF StopCancelled, Answer
<1>15. ASSUME NEW h \in Handlers, Remove(h) PROVE EntryInv'
  BY <1>15 DEF Remove, Goto
<1>16. ASSUME NEW h \in Handlers, Respond(h) PROVE EntryInv'
  BY <1>16 DEF Respond, Answer
<1>17. ASSUME NEW e \in Entries, NEW clean \in BOOLEAN, MonitorExit(e, clean) PROVE EntryInv'
  <2>1. CASE clean /\ reason[e] = "none"
    BY <1>17, <2>1 DEF MonitorExit, ExitVerdict
  <2>2. CASE clean /\ reason[e] = "stopped"
    BY <1>17, <2>2 DEF MonitorExit, ExitVerdict
  <2>3. CASE ~clean
    BY <1>17, <2>3 DEF MonitorExit, ExitVerdict
  <2> QED
    BY <1>17, <2>1, <2>2, <2>3 DEF MonitorExit, Reasons
<1>18. ASSUME NEW e \in Entries, NEW clean \in BOOLEAN, MonitorLateExit(e, clean) PROVE EntryInv'
  BY <1>18 DEF MonitorLateExit, ExitVerdict
<1>19. ASSUME NEW e \in Entries, LifetimeExpires(e) PROVE EntryInv'
  <2>1. CASE reason[e] = "none"
    BY <1>19, <2>1 DEF LifetimeExpires, SetReason
  <2>2. CASE reason[e] = "stopped"
    BY <1>19, <2>2 DEF LifetimeExpires, SetReason
  <2> QED
    BY <1>19, <2>1, <2>2 DEF LifetimeExpires, Reasons
<1>20. ASSUME NEW e \in Entries, LifetimeTerminated(e) PROVE EntryInv'
  BY <1>20 DEF LifetimeTerminated, TerminateReturnsNil
<1>21. ASSUME NEW e \in Entries, LifetimeTerminateFails(e) PROVE EntryInv'
  BY <1>21 DEF LifetimeTerminateFails, TerminateReturnsError
<1>22. ASSUME NEW e \in Entries, Finish(e) PROVE EntryInv'
  BY <1>22 DEF Finish
<1>23. ASSUME NEW e \in Entries, TreeReaped(e) PROVE EntryInv'
  BY <1>23 DEF TreeReaped
<1>24. ASSUME NEW e \in Entries, TreeSignals(e) PROVE EntryInv'
  BY <1>24 DEF TreeSignals
<1>25. ASSUME Cancel PROVE EntryInv'
  BY <1>25 DEF Cancel
<1>26. ASSUME CloseSnapshots PROVE EntryInv'
  BY <1>26 DEF CloseSnapshots
<1>27. ASSUME NEW e \in Entries, CloseNext(e) PROVE EntryInv'
  BY <1>27 DEF CloseNext
<1>28. ASSUME CloseMarks PROVE EntryInv'
  <2>1. closing \in Entries /\ state[closing] # "unused"
    BY <1>28 DEF CloseMarks, CloserInv
  <2> QED
    BY <1>28, <2>1 DEF CloseMarks, SetReason
<1>29. ASSUME CloseTerminated PROVE EntryInv'
  BY <1>29 DEF CloseTerminated, TerminateReturnsNil
<1>30. ASSUME CloseFails PROVE EntryInv'
  BY <1>30 DEF CloseFails, TerminateReturnsError
<1>31. ASSUME CloseSettles PROVE EntryInv'
  BY <1>31 DEF CloseSettles
<1>32. ASSUME CloseReturns PROVE EntryInv'
  BY <1>32 DEF CloseReturns
<1>33. CASE UNCHANGED vars
  BY <1>33 DEF vars
<1> QED
  BY <1>1, <1>2, <1>3, <1>4, <1>5, <1>6, <1>7, <1>8, <1>9, <1>10, <1>11,
     <1>12, <1>13, <1>14, <1>15, <1>16, <1>17, <1>18, <1>19, <1>20, <1>21,
     <1>22, <1>23, <1>24, <1>25, <1>26, <1>27, <1>28, <1>29, <1>30, <1>31,
     <1>32, <1>33
  DEF Next, Terminated, HandlerStep, Launch, Stop, MonitorStep, MonitorReceives, CloserStep

\* The registry keeps every running entry and stays within its capacity.
LEMMA RegistryStepInv == TypeOK /\ HandlerInv /\ EntryInv /\ RegistryInv /\ [Next \/ Terminated]_vars => RegistryInv'
<1> SUFFICES ASSUME TypeOK /\ HandlerInv /\ EntryInv /\ RegistryInv, [Next \/ Terminated]_vars PROVE RegistryInv'
  OBVIOUS
<1> USE DEF TypeOK, RegistryInv, RunningRegistered, CapacityBound, Registered, Launching, entryVars, monitorVars, handlerVars, closerVars
<1>1. ASSUME NEW h \in Handlers, NEW req \in Requests, Begin(h, req) PROVE RegistryInv'
  BY <1>1 DEF Begin
<1>2. ASSUME NEW h \in Handlers, StartDenied(h) PROVE RegistryInv'
  BY <1>2 DEF StartDenied, Answer
<1>3. ASSUME NEW h \in Handlers, StartAdmitted(h) PROVE RegistryInv'
  BY <1>3 DEF StartAdmitted, Goto
<1>4. ASSUME NEW h \in Handlers, LaunchResolves(h) PROVE RegistryInv'
  BY <1>4 DEF LaunchResolves, Goto
<1>5. ASSUME NEW h \in Handlers, LaunchFails(h) PROVE RegistryInv'
  BY <1>5 DEF LaunchFails, Answer
<1>6. ASSUME NEW h \in Handlers, NEW e \in Entries, Spawn(h, e) PROVE RegistryInv'
  <2> DEFINE k == request[h].key
  <2>1. k \in Keys /\ k \notin Registered /\ mutex = h
    BY <1>6 DEF Spawn, HandlerInv, Requests
  <2>2. Registered' = Registered \cup {k}
    BY <1>6, <2>1, ConstantsAssumption DEF Spawn
  <2>3. IsFiniteSet(Registered') /\ Cardinality(Registered') <= MaxBackground
    <3>1. Cardinality(Registered) < MaxBackground
      BY <1>6 DEF Spawn
    <3>2. IsFiniteSet(Registered)
      OBVIOUS
    <3> HIDE DEF Registered, k
    <3>3. /\ IsFiniteSet(Registered \cup {k})
          /\ Cardinality(Registered \cup {k}) = Cardinality(Registered) + 1
          /\ Cardinality(Registered) \in Nat
      BY <2>1, <3>2, AddOne
    <3>4. IsFiniteSet(Registered')
      BY <2>2, <3>3
    <3>5. Cardinality(Registered') <= MaxBackground
      BY <2>2, <3>1, <3>3, ConstantsAssumption
    <3> QED
      BY <3>4, <3>5
  <2>4. \A g \in Handlers : pc'[g] \notin Launching
    BY <1>6, <2>1 DEF Spawn, HandlerInv
  <2>5. RunningRegistered'
    BY <1>6, <2>1, ConstantsAssumption DEF Spawn
  <2>6. \A q \in Keys : background'[q] # NoEntry => state'[background'[q]] # "unused"
    BY <1>6, <2>1 DEF Spawn
  <2> QED
    BY <2>3, <2>4, <2>5, <2>6
<1>7. ASSUME NEW h \in Handlers, NotFound(h) PROVE RegistryInv'
  BY <1>7 DEF NotFound, Answer
<1>8. ASSUME NEW h \in Handlers, Find(h) PROVE RegistryInv'
  BY <1>8 DEF Find
<1>9. ASSUME NEW h \in Handlers, StopChecks(h) PROVE RegistryInv'
  BY <1>9 DEF StopChecks, Goto
<1>10. ASSUME NEW h \in Handlers, StopMarks(h) PROVE RegistryInv'
  BY <1>10 DEF StopMarks, Goto, SetReason
<1>11. ASSUME NEW h \in Handlers, StopTerminated(h) PROVE RegistryInv'
  BY <1>11 DEF StopTerminated, Goto, TerminateReturnsNil
<1>12. ASSUME NEW h \in Handlers, StopTerminateFails(h) PROVE RegistryInv'
  BY <1>12 DEF StopTerminateFails, Answer
<1>13. ASSUME NEW h \in Handlers, StopSettles(h) PROVE RegistryInv'
  BY <1>13 DEF StopSettles, Goto
<1>14. ASSUME NEW h \in Handlers, StopCancelled(h) PROVE RegistryInv'
  BY <1>14 DEF StopCancelled, Answer
<1>15. ASSUME NEW h \in Handlers, Remove(h) PROVE RegistryInv'
  <2>1. Registered' \subseteq Registered
    BY <1>15 DEF Remove
  <2>2. IsFiniteSet(Registered') /\ Cardinality(Registered') <= Cardinality(Registered)
    BY <2>1, FS_Subset
  <2>3. Cardinality(Registered') \in Nat /\ Cardinality(Registered) \in Nat
    BY <2>2, FS_CardinalityType
  <2>4. state[found[h]] # "running" /\ \A g \in Handlers : pc'[g] \notin Launching
    BY <1>15, ConstantsAssumption DEF Remove, Goto, HandlerInv, Terminal
  <2>5. Cardinality(Registered') <= MaxBackground
    <3> HIDE DEF Registered
    <3> QED
      BY <2>2, <2>3, ConstantsAssumption
  <2>6. RunningRegistered'
    BY <1>15, <2>4 DEF Remove, Goto
  <2> QED
    BY <1>15, <2>2, <2>4, <2>5, <2>6 DEF Remove, Goto
<1>16. ASSUME NEW h \in Handlers, Respond(h) PROVE RegistryInv'
  BY <1>16 DEF Respond, Answer
<1>17. ASSUME NEW e \in Entries, NEW clean \in BOOLEAN, MonitorExit(e, clean) PROVE RegistryInv'
  BY <1>17 DEF MonitorExit, ExitVerdict
<1>18. ASSUME NEW e \in Entries, NEW clean \in BOOLEAN, MonitorLateExit(e, clean) PROVE RegistryInv'
  BY <1>18 DEF MonitorLateExit, ExitVerdict
<1>19. ASSUME NEW e \in Entries, LifetimeExpires(e) PROVE RegistryInv'
  BY <1>19 DEF LifetimeExpires, SetReason
<1>20. ASSUME NEW e \in Entries, LifetimeTerminated(e) PROVE RegistryInv'
  BY <1>20 DEF LifetimeTerminated, TerminateReturnsNil
<1>21. ASSUME NEW e \in Entries, LifetimeTerminateFails(e) PROVE RegistryInv'
  BY <1>21 DEF LifetimeTerminateFails, TerminateReturnsError
<1>22. ASSUME NEW e \in Entries, Finish(e) PROVE RegistryInv'
  <2>1. state'[e] # "unused" /\ state'[e] # "running"
    BY <1>22 DEF Finish, EntryInv, VerdictInv, Terminal
  <2> QED
    BY <1>22, <2>1 DEF Finish
<1>23. ASSUME NEW e \in Entries, TreeReaped(e) PROVE RegistryInv'
  BY <1>23 DEF TreeReaped
<1>24. ASSUME NEW e \in Entries, TreeSignals(e) PROVE RegistryInv'
  BY <1>24 DEF TreeSignals
<1>25. ASSUME Cancel PROVE RegistryInv'
  BY <1>25 DEF Cancel
<1>26. ASSUME CloseSnapshots PROVE RegistryInv'
  BY <1>26 DEF CloseSnapshots
<1>27. ASSUME NEW e \in Entries, CloseNext(e) PROVE RegistryInv'
  BY <1>27 DEF CloseNext
<1>28. ASSUME CloseMarks PROVE RegistryInv'
  BY <1>28 DEF CloseMarks, SetReason
<1>29. ASSUME CloseTerminated PROVE RegistryInv'
  BY <1>29 DEF CloseTerminated, TerminateReturnsNil
<1>30. ASSUME CloseFails PROVE RegistryInv'
  BY <1>30 DEF CloseFails, TerminateReturnsError
<1>31. ASSUME CloseSettles PROVE RegistryInv'
  BY <1>31 DEF CloseSettles
<1>32. ASSUME CloseReturns PROVE RegistryInv'
  BY <1>32 DEF CloseReturns
<1>33. CASE UNCHANGED vars
  BY <1>33 DEF vars
<1> QED
  BY <1>1, <1>2, <1>3, <1>4, <1>5, <1>6, <1>7, <1>8, <1>9, <1>10, <1>11,
     <1>12, <1>13, <1>14, <1>15, <1>16, <1>17, <1>18, <1>19, <1>20, <1>21,
     <1>22, <1>23, <1>24, <1>25, <1>26, <1>27, <1>28, <1>29, <1>30, <1>31,
     <1>32, <1>33
  DEF Next, Terminated, HandlerStep, Launch, Stop, MonitorStep, MonitorReceives, CloserStep

\* Close keeps track of every tree it still has to reap.
LEMMA CloserStepInv == TypeOK /\ HandlerInv /\ EntryInv /\ RegistryInv /\ CloserInv /\ [Next \/ Terminated]_vars => CloserInv'
<1> SUFFICES ASSUME TypeOK /\ HandlerInv /\ EntryInv /\ RegistryInv /\ CloserInv, [Next \/ Terminated]_vars PROVE CloserInv'
  OBVIOUS
<1> USE DEF TypeOK, CloserInv, Abandoned, entryVars, monitorVars, handlerVars, closerVars
<1>1. ASSUME NEW h \in Handlers, NEW req \in Requests, Begin(h, req) PROVE CloserInv'
  BY <1>1 DEF Begin
<1>2. ASSUME NEW h \in Handlers, StartDenied(h) PROVE CloserInv'
  BY <1>2 DEF StartDenied, Answer
<1>3. ASSUME NEW h \in Handlers, StartAdmitted(h) PROVE CloserInv'
  BY <1>3 DEF StartAdmitted, Goto
<1>4. ASSUME NEW h \in Handlers, LaunchResolves(h) PROVE CloserInv'
  BY <1>4 DEF LaunchResolves, Goto
<1>5. ASSUME NEW h \in Handlers, LaunchFails(h) PROVE CloserInv'
  BY <1>5 DEF LaunchFails, Answer
<1>6. ASSUME NEW h \in Handlers, NEW e \in Entries, Spawn(h, e) PROVE CloserInv'
  BY <1>6 DEF Spawn
<1>7. ASSUME NEW h \in Handlers, NotFound(h) PROVE CloserInv'
  BY <1>7 DEF NotFound, Answer
<1>8. ASSUME NEW h \in Handlers, Find(h) PROVE CloserInv'
  BY <1>8 DEF Find
<1>9. ASSUME NEW h \in Handlers, StopChecks(h) PROVE CloserInv'
  BY <1>9 DEF StopChecks, Goto
<1>10. ASSUME NEW h \in Handlers, StopMarks(h) PROVE CloserInv'
  BY <1>10 DEF StopMarks, Goto, SetReason
<1>11. ASSUME NEW h \in Handlers, StopTerminated(h) PROVE CloserInv'
  BY <1>11 DEF StopTerminated, Goto, TerminateReturnsNil
<1>12. ASSUME NEW h \in Handlers, StopTerminateFails(h) PROVE CloserInv'
  BY <1>12 DEF StopTerminateFails, Answer
<1>13. ASSUME NEW h \in Handlers, StopSettles(h) PROVE CloserInv'
  BY <1>13 DEF StopSettles, Goto
<1>14. ASSUME NEW h \in Handlers, StopCancelled(h) PROVE CloserInv'
  BY <1>14 DEF StopCancelled, Answer
<1>15. ASSUME NEW h \in Handlers, Remove(h) PROVE CloserInv'
  BY <1>15 DEF Remove, Goto
<1>16. ASSUME NEW h \in Handlers, Respond(h) PROVE CloserInv'
  BY <1>16 DEF Respond, Answer
<1>17. ASSUME NEW e \in Entries, NEW clean \in BOOLEAN, MonitorExit(e, clean) PROVE CloserInv'
  BY <1>17 DEF MonitorExit, ExitVerdict
<1>18. ASSUME NEW e \in Entries, NEW clean \in BOOLEAN, MonitorLateExit(e, clean) PROVE CloserInv'
  BY <1>18 DEF MonitorLateExit, ExitVerdict
<1>19. ASSUME NEW e \in Entries, LifetimeExpires(e) PROVE CloserInv'
  BY <1>19 DEF LifetimeExpires, SetReason
<1>20. ASSUME NEW e \in Entries, LifetimeTerminated(e) PROVE CloserInv'
  BY <1>20 DEF LifetimeTerminated, TerminateReturnsNil
<1>21. ASSUME NEW e \in Entries, LifetimeTerminateFails(e) PROVE CloserInv'
  BY <1>21 DEF LifetimeTerminateFails, TerminateReturnsError
<1>22. ASSUME NEW e \in Entries, Finish(e) PROVE CloserInv'
  <2>1. state[e] = "running" /\ state'[e] # "unused"
    BY <1>22 DEF Finish, EntryInv, VerdictInv, Terminal
  <2>2. \A x \in Entries : Abandoned(x) => Abandoned(x)'
    BY <1>22, <2>1 DEF Finish
  <2> QED
    BY <1>22, <2>1, <2>2 DEF Finish
<1>23. ASSUME NEW e \in Entries, TreeReaped(e) PROVE CloserInv'
  BY <1>23 DEF TreeReaped
<1>24. ASSUME NEW e \in Entries, TreeSignals(e) PROVE CloserInv'
  BY <1>24 DEF TreeSignals
<1>25. ASSUME Cancel PROVE CloserInv'
  BY <1>25 DEF Cancel
<1>26. ASSUME CloseSnapshots PROVE CloserInv'
  <2>1. \A h \in Handlers : pc[h] # "spawning"
    BY <1>26, ConstantsAssumption DEF CloseSnapshots, HandlerInv, Launching
  <2>2. \A e \in Entries : tree[e] = "alive" => e \in todo' \/ Abandoned(e)
    BY <1>26, AliveRuns, ConstantsAssumption
       DEF CloseSnapshots, RegistryInv, RunningRegistered, Registered
  <2> QED
    BY <1>26, <2>1, <2>2 DEF CloseSnapshots
<1>27. ASSUME NEW e \in Entries, CloseNext(e) PROVE CloserInv'
  <2>1. state[e] = "running" \/ tree[e] # "alive" \/ Abandoned(e)
    BY AliveRuns
  <2> QED
    BY <1>27, <2>1 DEF CloseNext
<1>28. ASSUME CloseMarks PROVE CloserInv'
  BY <1>28 DEF CloseMarks, SetReason
<1>29. ASSUME CloseTerminated PROVE CloserInv'
  BY <1>29 DEF CloseTerminated, TerminateReturnsNil
<1>30. ASSUME CloseFails PROVE CloserInv'
  BY <1>30 DEF CloseFails, TerminateReturnsError
<1>31. ASSUME CloseSettles PROVE CloserInv'
  BY <1>31 DEF CloseSettles
<1>32. ASSUME CloseReturns PROVE CloserInv'
  BY <1>32 DEF CloseReturns
<1>33. CASE UNCHANGED vars
  BY <1>33 DEF vars
<1> QED
  BY <1>1, <1>2, <1>3, <1>4, <1>5, <1>6, <1>7, <1>8, <1>9, <1>10, <1>11,
     <1>12, <1>13, <1>14, <1>15, <1>16, <1>17, <1>18, <1>19, <1>20, <1>21,
     <1>22, <1>23, <1>24, <1>25, <1>26, <1>27, <1>28, <1>29, <1>30, <1>31,
     <1>32, <1>33
  DEF Next, Terminated, HandlerStep, Launch, Stop, MonitorStep, MonitorReceives, CloserStep

\* No step changes a final state, its exit code or a reason that was set.
LEMMA FinalStateStep == TypeOK /\ EntryInv /\ [Next \/ Terminated]_vars => FinalStateKept
<1> SUFFICES ASSUME TypeOK /\ EntryInv, [Next \/ Terminated]_vars PROVE FinalStateKept
  OBVIOUS
<1> USE DEF TypeOK, FinalStateKept, entryVars, monitorVars, handlerVars, closerVars, Terminal
<1>1. ASSUME NEW h \in Handlers, NEW req \in Requests, Begin(h, req) PROVE FinalStateKept
  BY <1>1 DEF Begin
<1>2. ASSUME NEW h \in Handlers, StartDenied(h) PROVE FinalStateKept
  BY <1>2 DEF StartDenied, Answer
<1>3. ASSUME NEW h \in Handlers, StartAdmitted(h) PROVE FinalStateKept
  BY <1>3 DEF StartAdmitted, Goto
<1>4. ASSUME NEW h \in Handlers, LaunchResolves(h) PROVE FinalStateKept
  BY <1>4 DEF LaunchResolves, Goto
<1>5. ASSUME NEW h \in Handlers, LaunchFails(h) PROVE FinalStateKept
  BY <1>5 DEF LaunchFails, Answer
<1>6. ASSUME NEW h \in Handlers, NEW e \in Entries, Spawn(h, e) PROVE FinalStateKept
  BY <1>6 DEF Spawn, EntryInv
<1>7. ASSUME NEW h \in Handlers, NotFound(h) PROVE FinalStateKept
  BY <1>7 DEF NotFound, Answer
<1>8. ASSUME NEW h \in Handlers, Find(h) PROVE FinalStateKept
  BY <1>8 DEF Find
<1>9. ASSUME NEW h \in Handlers, StopChecks(h) PROVE FinalStateKept
  BY <1>9 DEF StopChecks, Goto
<1>10. ASSUME NEW h \in Handlers, StopMarks(h) PROVE FinalStateKept
  BY <1>10 DEF StopMarks, Goto, SetReason
<1>11. ASSUME NEW h \in Handlers, StopTerminated(h) PROVE FinalStateKept
  BY <1>11 DEF StopTerminated, Goto, TerminateReturnsNil
<1>12. ASSUME NEW h \in Handlers, StopTerminateFails(h) PROVE FinalStateKept
  BY <1>12 DEF StopTerminateFails, Answer
<1>13. ASSUME NEW h \in Handlers, StopSettles(h) PROVE FinalStateKept
  BY <1>13 DEF StopSettles, Goto
<1>14. ASSUME NEW h \in Handlers, StopCancelled(h) PROVE FinalStateKept
  BY <1>14 DEF StopCancelled, Answer
<1>15. ASSUME NEW h \in Handlers, Remove(h) PROVE FinalStateKept
  BY <1>15 DEF Remove, Goto
<1>16. ASSUME NEW h \in Handlers, Respond(h) PROVE FinalStateKept
  BY <1>16 DEF Respond, Answer
<1>17. ASSUME NEW e \in Entries, NEW clean \in BOOLEAN, MonitorExit(e, clean) PROVE FinalStateKept
  BY <1>17 DEF MonitorExit, ExitVerdict
<1>18. ASSUME NEW e \in Entries, NEW clean \in BOOLEAN, MonitorLateExit(e, clean) PROVE FinalStateKept
  BY <1>18 DEF MonitorLateExit, ExitVerdict
<1>19. ASSUME NEW e \in Entries, LifetimeExpires(e) PROVE FinalStateKept
  BY <1>19 DEF LifetimeExpires, SetReason
<1>20. ASSUME NEW e \in Entries, LifetimeTerminated(e) PROVE FinalStateKept
  BY <1>20 DEF LifetimeTerminated, TerminateReturnsNil
<1>21. ASSUME NEW e \in Entries, LifetimeTerminateFails(e) PROVE FinalStateKept
  BY <1>21 DEF LifetimeTerminateFails, TerminateReturnsError
<1>22. ASSUME NEW e \in Entries, Finish(e) PROVE FinalStateKept
  <2>1. state[e] \notin Terminal
    BY <1>22 DEF Finish, EntryInv
  <2> QED
    BY <1>22, <2>1 DEF Finish
<1>23. ASSUME NEW e \in Entries, TreeReaped(e) PROVE FinalStateKept
  BY <1>23 DEF TreeReaped
<1>24. ASSUME NEW e \in Entries, TreeSignals(e) PROVE FinalStateKept
  BY <1>24 DEF TreeSignals
<1>25. ASSUME Cancel PROVE FinalStateKept
  BY <1>25 DEF Cancel
<1>26. ASSUME CloseSnapshots PROVE FinalStateKept
  BY <1>26 DEF CloseSnapshots
<1>27. ASSUME NEW e \in Entries, CloseNext(e) PROVE FinalStateKept
  BY <1>27 DEF CloseNext
<1>28. ASSUME CloseMarks PROVE FinalStateKept
  BY <1>28 DEF CloseMarks, SetReason
<1>29. ASSUME CloseTerminated PROVE FinalStateKept
  BY <1>29 DEF CloseTerminated, TerminateReturnsNil
<1>30. ASSUME CloseFails PROVE FinalStateKept
  BY <1>30 DEF CloseFails, TerminateReturnsError
<1>31. ASSUME CloseSettles PROVE FinalStateKept
  BY <1>31 DEF CloseSettles
<1>32. ASSUME CloseReturns PROVE FinalStateKept
  BY <1>32 DEF CloseReturns
<1>33. CASE UNCHANGED vars
  BY <1>33 DEF vars
<1> QED
  BY <1>1, <1>2, <1>3, <1>4, <1>5, <1>6, <1>7, <1>8, <1>9, <1>10, <1>11,
     <1>12, <1>13, <1>14, <1>15, <1>16, <1>17, <1>18, <1>19, <1>20, <1>21,
     <1>22, <1>23, <1>24, <1>25, <1>26, <1>27, <1>28, <1>29, <1>30, <1>31,
     <1>32, <1>33
  DEF Next, Terminated, HandlerStep, Launch, Stop, MonitorStep, MonitorReceives, CloserStep

-----------------------------------------------------------------------------
(***************************************************************************)
(* The theorems.                                                           *)
(***************************************************************************)
\* The invariant holds initially.
LEMMA InitInv == Init => IInv
<1> SUFFICES ASSUME Init PROVE IInv
  OBVIOUS
<1>1. TypeOK
  BY DEF Init, TypeOK, Reasons, Verdicts, NoVerdict, Replies, NoReply,
         HandlerSteps, MonitorSteps, CloserSteps, TreeStates
<1>2. HandlerInv /\ EntryInv /\ CloserInv
  BY ConstantsAssumption
     DEF Init, HandlerInv, EntryInv, CloserInv, Launching, Stopping, NoReply, Terminal
<1>3. Registered = {}
  BY DEF Init, Registered
<1>4. IsFiniteSet(Registered) /\ Cardinality(Registered) = 0
  BY <1>3, FS_EmptySet
<1>5. RegistryInv
  BY <1>4, ConstantsAssumption
     DEF Init, RegistryInv, RunningRegistered, CapacityBound, Launching
<1> QED
  BY <1>1, <1>2, <1>5 DEF IInv

\* The invariant is inductive.
LEMMA StepInv == IInv /\ [Next \/ Terminated]_vars => IInv'
BY TypeStep, HandlerStepInv, EntryStepInv, RegistryStepInv, CloserStepInv DEF IInv

\* Hence it holds in every reachable state.
LEMMA Invariant == Spec => []IInv
BY InitInv, StepInv, PTL DEF Spec

\* Type correctness of the registry, its handlers, monitors and closer.
THEOREM TypeCorrect == Spec => []TypeOK
<1>1. IInv => TypeOK
  BY DEF IInv
<1> QED
  BY <1>1, Invariant, PTL

\* No interleaving of starts, stops and Close loses a running entry or admits
\* one too many (startBackground, removeBackground).
THEOREM RegistrySafe == Spec => []RegistryConsistent
<1>1. IInv => RegistryConsistent
  BY DEF IInv, RegistryInv, RegistryConsistent
<1> QED
  BY <1>1, Invariant, PTL

\* The final state of an entry tells the truth about its tree and about what
\* ended it (monitorBackground, setReason, finish).
THEOREM VerdictsAgree == Spec => []VerdictAgrees
<1>1. IInv => VerdictAgrees
  BY DEF IInv, TypeOK, EntryInv, VerdictInv, VerdictAgrees, Terminal
<1> QED
  BY <1>1, Invariant, PTL

\* A live tree is reachable through its key unless its lifetime termination
\* failed (monitorBackground, stopBackground, Close).
THEOREM LiveTreesOwned == Spec => []LiveTreeOwned
<1>1. IInv => LiveTreeOwned
  BY AliveRuns DEF IInv, LiveTreeOwned, RegistryInv, RunningRegistered
<1> QED
  BY <1>1, Invariant, PTL

\* A completed stop has reaped its tree, however it raced with the exit, the
\* timer and other requests, unless the tree was abandoned before.
THEOREM StopReaps == Spec => []StopReapsTree
<1>1. IInv => StopReapsTree
  BY AliveRuns DEF IInv, HandlerInv, StopReapsTree, CompletedStop, Terminal
<1> QED
  BY <1>1, Invariant, PTL

\* Where lifetime terminations never fail, stop keeps the promise of ADR 0020.
THEOREM StopSynchronous ==
    ASSUME "lifetime" \notin FailingSites
    PROVE  Spec => []StopIsSynchronous
<1>1. StopReapsTree => StopIsSynchronous
  BY DEF StopReapsTree, StopIsSynchronous, Abandoned
<1> QED
  BY <1>1, StopReaps, PTL

\* A Close without error leaves no tree alive but the abandoned ones: a start
\* that was in flight at shutdown is waited for and reaped as well.
THEOREM CloseReaps == Spec => []CloseReapsEveryTree
<1>1. IInv => CloseReapsEveryTree
  BY DEF IInv, CloserInv, CloseReapsEveryTree
<1> QED
  BY <1>1, Invariant, PTL

\* Both promises together.
THEOREM TreesAreReaped == Spec => []TreesReaped
<1>1. StopReapsTree /\ CloseReapsEveryTree => TreesReaped
  BY DEF TreesReaped
<1> QED
  BY <1>1, StopReaps, CloseReaps, PTL

\* What was reported as final stays reported: finishOnce and setReason.
THEOREM FinalStatesNeverChange == Spec => FinalStatesStable
<1>1. IInv /\ [Next \/ Terminated]_vars => [FinalStateKept]_vars
  BY FinalStateStep DEF IInv
<1> QED
  BY <1>1, Invariant, PTL DEF Spec, FinalStatesStable

=============================================================================
