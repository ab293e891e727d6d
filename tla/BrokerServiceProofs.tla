------------------------- MODULE BrokerServiceProofs -------------------------
(***************************************************************************)
(* Proofs about BrokerService, for any number of connections: who owns the *)
(* handle of a connection, through the accept, the session and the close   *)
(* that runs beside them, and what a clean end of the service leaves.      *)
(*                                                                         *)
(* A handle is closed by the party that took its connection: the accept    *)
(* out of pending, the session or Runtime.Close out of the connection's    *)
(* closed flag.  IInv says who may still close which.                      *)
(***************************************************************************)
EXTENDS BrokerService, TLAPS

Accepting == {"connect", "connecting", "preface", "prefacing", "verify", "transfer"}
Holding == {"register", "session", "unregister", "closing"}
ListenerClosed == {"active", "waiting", "runner", "joining"}

\* A handle is closed at most once; one that never was is owned.
ConnInv ==
    /\ \A c \in Conns : closes[c] \in {0, 1}
    /\ \A c \in Conns : conn[c] \in {"unused", "queued"} =>
          closes[c] = 0 /\ c \notin connClosed /\ c \notin {pending, mine, active, snapshot}
    /\ \A c \in Conns : conn[c] \in Handles /\ closes[c] = 0 =>
          \/ c = pending
          \/ c = mine /\ loop \in Holding
          \/ c = snapshot /\ scm = "waiting"

\* The pending instance is the listener's alone.
PendingInv ==
    pending # None =>
        /\ closes[pending] = 0 /\ conn[pending] \in Handles
        /\ pending \notin connClosed \cup {active, snapshot}
        /\ loop \notin Holding /\ Windows /\ ~serverClosed

\* The loop works on the pending instance, then on a connection of its own.
MineInv ==
    /\ loop \in Accepting => mine # None /\ Windows /\ pending \in {mine, None}
    /\ loop \in Holding =>
          /\ mine # None
          /\ mine \notin connClosed => closes[mine] = 0 /\ conn[mine] \in Handles
    /\ loop = "register" => mine \notin connClosed
    /\ active # None => loop \in {"session", "unregister"} /\ active = mine
    /\ io # "none" => loop = "session" /\ closes[mine] = 0 /\ conn[mine] \in Handles

\* What Close took is closed by it or by the session.
SnapshotInv ==
    /\ scm \in {"listener", "active"} /\ snapshot # None /\ snapshot \notin connClosed =>
          snapshot = mine /\ loop \in Holding \ {"register"}
    /\ scm = "waiting" => /\ snapshot # None /\ snapshot \in connClosed
                          /\ closes[snapshot] = 0 /\ conn[snapshot] \in Handles
    /\ loop \in Holding /\ mine \in connClosed /\ conn[mine] \in Handles /\ closes[mine] = 0 =>
          snapshot = mine /\ scm = "waiting"

\* Where the service thread is, and what it has done by then.
ServiceInv ==
    /\ scm = "starting" => /\ loop = "idle" /\ socket # "bound" /\ ~serverClosed
                           /\ unclosed = {} /\ \A c \in Conns : conn[c] = "unused"
    /\ serverClosed => scm \in ListenerClosed \cup {"exited"}
    /\ scm \in ListenerClosed => serverClosed /\ socket = "absent"
    /\ scm = "joining" => runnerClosed \/ closeErr
    /\ exit # "none" <=> scm = "exited"
    /\ Windows => socket = "absent"
    /\ exit = "clean" => loop = "done" /\ serverClosed /\ runnerClosed /\ socket = "absent"

\* A handle that would not close ends the loop on Windows.
UnclosedInv ==
    Windows /\ unclosed # {} => loop = "done" \/ (loop = "judge" /\ "close-failed" \in failure)

IInv == /\ TypeOK
        /\ ConnInv /\ PendingInv /\ MineInv /\ SnapshotInv /\ ServiceInv /\ UnclosedInv


-----------------------------------------------------------------------------
(***************************************************************************)
(* Steps.                                                                  *)
(***************************************************************************)
\* What the operating system and the clients do is a step like the others.
NextSteps ==
    \/ LoopTop \/ EnterHandleOne \/ JudgeFailure \/ AcceptCancelled \/ ListenerBreaks
    \/ StartIO \/ IssueIO \/ CompleteIO \/ AbortIO \/ ExpireIO \/ RunReturns
    \/ StartFails \/ Stop \/ CloseRunner \/ Exit \/ Start
    \/ PendingHandle \/ TransferPending \/ (\E c \in Conns : AcceptSocket(c))
    \/ Unregister \/ CloseConnection \/ Register
    \/ BeginClose \/ CloseListener \/ CloseActive \/ FinishActive
    \/ ClientStep \/ RevertFails
    \/ ConnectPipe \/ PipeConnected \/ StartPreface \/ ReadPreface \/ VerifyPeer
    \/ VerifyPeerFails \/ UNCHANGED vars

LEMMA Steps == [Next]_vars => NextSteps
BY DEF Next, LoopStep, ServiceStep, Fault, NextSteps

LEMMA RuleNames ==
    /\ "runtime-closed" \in Rules /\ "accept-failed" \in Rules /\ "accept-cancelled" \in Rules
    /\ "server-closed" \in Rules /\ "preface-invalid" \in Rules /\ "peer-mismatch" \in Rules
    /\ "session-failed" \in Rules /\ "close-failed" \in Rules
BY DEF Rules

\* No connection exists before the service.
LEMMA InitInv == Init => IInv
<1> SUFFICES ASSUME Init PROVE IInv
  OBVIOUS
<1>1. TypeOK
  BY ConnsAssumption DEF Init, TypeOK, Handles, Linux, Rules
<1>2. ConnInv /\ PendingInv /\ MineInv /\ SnapshotInv
  BY ConnsAssumption
     DEF Init, ConnInv, PendingInv, MineInv, SnapshotInv, Accepting, Holding, Handles
<1>3. ServiceInv /\ UnclosedInv
  BY DEF Init, ServiceInv, UnclosedInv, ListenerClosed, Linux, Windows
<1> QED
  BY <1>1, <1>2, <1>3 DEF IInv

-----------------------------------------------------------------------------
(***************************************************************************)
(* Every step keeps the invariant.                                         *)
(***************************************************************************)
\* A turn of the loop without a connection.
LEMMA TurnKeeps ==
    ASSUME IInv, LoopTop \/ EnterHandleOne \/ JudgeFailure \/ AcceptCancelled \/ ListenerBreaks
    PROVE  IInv'
<1>1. failure' \subseteq Rules
  BY RuleNames
     DEF LoopTop, EnterHandleOne, JudgeFailure, AcceptCancelled, ListenerBreaks, Fails,
         serviceVars, hostVars, serverVars, loopVars, connVars, historyVars, IInv, TypeOK
<1>2. TypeOK'
  <2>1. CASE LoopTop
    BY SMTT(30), <1>1, <2>1, ConnsAssumption
       DEF LoopTop, IInv, TypeOK, Handles, Linux, Windows, serviceVars, hostVars, serverVars,
           loopVars, connVars, historyVars
  <2>2. CASE EnterHandleOne
    BY SMTT(20), <1>1, <2>2
       DEF IInv, EnterHandleOne, Fails, Handles, TypeOK, serviceVars, hostVars, serverVars, connVars,
           historyVars
  <2>3. CASE JudgeFailure
    BY SMTT(30), <1>1, <2>3, ConnsAssumption
       DEF JudgeFailure, IInv, TypeOK, Handles, Linux, Windows, serviceVars, hostVars,
           serverVars, loopVars, connVars, historyVars
  <2>4. CASE AcceptCancelled
    BY SMTT(30), <1>1, <2>4, ConnsAssumption
       DEF AcceptCancelled, Fails, IInv, TypeOK, Handles, Linux, Windows, serviceVars, hostVars,
           serverVars, loopVars, connVars, historyVars
  <2>5. CASE ListenerBreaks
    BY SMTT(30), <1>1, <2>5, ConnsAssumption
       DEF ListenerBreaks, Fails, IInv, TypeOK, Handles, Linux, Windows, serviceVars, hostVars,
           serverVars, loopVars, connVars, historyVars
  <2> QED
    BY <2>1, <2>2, <2>3, <2>4, <2>5
<1> USE DEF LoopTop, EnterHandleOne, JudgeFailure, AcceptCancelled, ListenerBreaks, Fails,
            Recoverable, RecoverableOnWindows, RecoverableOnLinux, Confined, serviceVars,
            hostVars, serverVars, loopVars, connVars, historyVars, IInv, TypeOK, ConnInv,
            PendingInv, MineInv, SnapshotInv, ServiceInv, UnclosedInv, Accepting, Holding,
            ListenerClosed, Handles, Linux, Windows
<1>3. ConnInv'
  BY SMTT(30), <1>2, ConnsAssumption
<1>4. PendingInv'
  BY SMTT(30), <1>2, ConnsAssumption
<1>5. MineInv'
  BY SMTT(30), <1>2, ConnsAssumption
<1>6. SnapshotInv'
  BY SMTT(30), <1>2, ConnsAssumption
<1>7. ServiceInv'
  BY SMTT(30), <1>2, ConnsAssumption
<1>8. UnclosedInv'
  BY SMTT(30), <1>2, ConnsAssumption
<1> QED
  BY <1>2, <1>3, <1>4, <1>5, <1>6, <1>7, <1>8

\* The session's I/O.
LEMMA SessionKeeps ==
    ASSUME IInv, StartIO \/ IssueIO \/ CompleteIO \/ AbortIO \/ ExpireIO \/ RunReturns
    PROVE  IInv'
<1>1. failure' \subseteq Rules
  BY RuleNames
     DEF StartIO, IssueIO, CompleteIO, AbortIO, ExpireIO, RunReturns, InIO, Breaks,
         unchangedBySession, Succeeds, serviceVars, hostVars, serverVars, loopVars, connVars,
         historyVars, IInv, TypeOK
<1>2. TypeOK'
  <2>1. CASE StartIO
    BY SMTT(30), <1>1, <2>1, ConnsAssumption
       DEF StartIO, InIO, Breaks, unchangedBySession, IInv, TypeOK, Handles, Linux, Windows,
           serviceVars, hostVars, serverVars, loopVars, connVars, historyVars
  <2>2. CASE IssueIO
    BY SMTT(30), <1>1, <2>2, ConnsAssumption
       DEF IssueIO, InIO, Breaks, unchangedBySession, IInv, TypeOK, Handles, Linux, Windows,
           serviceVars, hostVars, serverVars, loopVars, connVars, historyVars
  <2>3. CASE CompleteIO
    BY SMTT(30), <1>1, <2>3, ConnsAssumption
       DEF CompleteIO, InIO, Succeeds, unchangedBySession, IInv, TypeOK, Handles, Linux,
           Windows, serviceVars, hostVars, serverVars, loopVars, connVars, historyVars
  <2>4. CASE AbortIO
    BY SMTT(30), <1>1, <2>4, ConnsAssumption
       DEF AbortIO, InIO, Breaks, unchangedBySession, IInv, TypeOK, Handles, Linux, Windows,
           serviceVars, hostVars, serverVars, loopVars, connVars, historyVars
  <2>5. CASE ExpireIO
    BY SMTT(30), <1>1, <2>5, ConnsAssumption
       DEF ExpireIO, InIO, Breaks, unchangedBySession, IInv, TypeOK, Handles, Linux, Windows,
           serviceVars, hostVars, serverVars, loopVars, connVars, historyVars
  <2>6. CASE RunReturns
    BY SMTT(30), <1>1, <2>6, ConnsAssumption
       DEF RunReturns, unchangedBySession, IInv, TypeOK, Handles, Linux, Windows, serviceVars,
           hostVars, serverVars, loopVars, connVars, historyVars
  <2> QED
    BY <2>1, <2>2, <2>3, <2>4, <2>5, <2>6
<1> USE DEF StartIO, IssueIO, CompleteIO, AbortIO, ExpireIO, RunReturns, InIO, Breaks,
            unchangedBySession, Interrupted, Succeeds, serviceVars, hostVars, serverVars,
            loopVars, connVars, historyVars, IInv, TypeOK, ConnInv, PendingInv, MineInv,
            SnapshotInv, ServiceInv, UnclosedInv, Accepting, Holding, ListenerClosed, Handles,
            Linux, Windows
<1>3. ConnInv'
  BY SMTT(30), <1>2, ConnsAssumption
<1>4. PendingInv'
  BY SMTT(30), <1>2, ConnsAssumption
<1>5. MineInv'
  BY SMTT(30), <1>2, ConnsAssumption
<1>6. SnapshotInv'
  BY SMTT(30), <1>2, ConnsAssumption
<1>7. ServiceInv'
  BY SMTT(30), <1>2, ConnsAssumption
<1>8. UnclosedInv'
  BY SMTT(30), <1>2, ConnsAssumption
<1> QED
  BY <1>2, <1>3, <1>4, <1>5, <1>6, <1>7, <1>8

\* The accept takes the next instance, and hands it over.
LEMMA TakeKeeps ==
    ASSUME IInv, PendingHandle \/ TransferPending
    PROVE  IInv'
<1>1. failure' \subseteq Rules
  BY RuleNames
     DEF PendingHandle, TransferPending, Fails, CreatePipe, unchangedByAccept, unchangedByPeer,
         serviceVars, hostVars, serverVars, loopVars, connVars, historyVars, IInv, TypeOK
<1>2. TypeOK'
  <2>1. CASE PendingHandle
    BY SMTT(30), <1>1, <2>1, ConnsAssumption
       DEF PendingHandle, Fails, CreatePipe, IInv, TypeOK, Handles, Linux, Windows, serviceVars,
           hostVars, serverVars, loopVars, connVars, historyVars
  <2>2. CASE TransferPending
    BY SMTT(30), <1>1, <2>2, ConnsAssumption
       DEF TransferPending, Fails, unchangedByAccept, unchangedByPeer, IInv, TypeOK, Handles,
           Linux, Windows, serviceVars, hostVars, serverVars, loopVars, connVars, historyVars
  <2> QED
    BY <2>1, <2>2
<1> USE DEF PendingHandle, TransferPending, Fails, CreatePipe, unchangedByAccept,
            unchangedByPeer, serviceVars, hostVars, serverVars, loopVars, connVars, historyVars,
            IInv, TypeOK, ConnInv, PendingInv, MineInv, SnapshotInv, ServiceInv, UnclosedInv,
            Accepting, Holding, ListenerClosed, Handles, Linux, Windows
<1>3. ConnInv'
  BY SMTT(30), <1>2, ConnsAssumption
<1>4. PendingInv'
  BY SMTT(30), <1>2, ConnsAssumption
<1>5. MineInv'
  BY SMTT(30), <1>2, ConnsAssumption
<1>6. SnapshotInv'
  BY SMTT(30), <1>2, ConnsAssumption
<1>7. ServiceInv'
  BY SMTT(30), <1>2, ConnsAssumption
<1>8. UnclosedInv'
  BY SMTT(30), <1>2, ConnsAssumption
<1> QED
  BY <1>2, <1>3, <1>4, <1>5, <1>6, <1>7, <1>8

\* The accept of Linux takes a queued connection.
LEMMA AcceptSocketKeeps ==
    ASSUME IInv, \E c \in Conns : AcceptSocket(c)
    PROVE  IInv'
<1>1. failure' \subseteq Rules
  BY RuleNames
     DEF AcceptSocket, Fails, serviceVars, hostVars, serverVars, loopVars, connVars,
         historyVars, IInv, TypeOK
<1>2. TypeOK'
  BY SMTT(30), <1>1, ConnsAssumption
     DEF AcceptSocket, Fails, Release, IInv, TypeOK, Handles, Linux, Windows, serviceVars,
         hostVars, serverVars, loopVars, connVars, historyVars
<1> USE DEF AcceptSocket, IsControl, Fails, Release, serviceVars, hostVars, serverVars,
            loopVars, connVars, historyVars, IInv, TypeOK, ConnInv, PendingInv, MineInv,
            SnapshotInv, ServiceInv, UnclosedInv, Accepting, Holding, ListenerClosed, Handles,
            Linux, Windows
<1>3. ConnInv'
  BY SMTT(30), <1>2, ConnsAssumption
<1>4. PendingInv'
  BY SMTT(30), <1>2, ConnsAssumption
<1>5. MineInv'
  BY SMTT(30), <1>2, ConnsAssumption
<1>6. SnapshotInv'
  BY SMTT(30), <1>2, ConnsAssumption
<1>7. ServiceInv'
  BY SMTT(30), <1>2, ConnsAssumption
<1>8. UnclosedInv'
  BY SMTT(30), <1>2, ConnsAssumption
<1> QED
  BY <1>2, <1>3, <1>4, <1>5, <1>6, <1>7, <1>8

\* HandleOne takes the connection, or closes it.
LEMMA RegisterKeeps ==
    ASSUME IInv, Register
    PROVE  IInv'
<1>1. failure' \subseteq Rules
  BY RuleNames
     DEF Register, Fails, serviceVars, hostVars, serverVars, loopVars, connVars, historyVars,
         IInv, TypeOK
<1>2. TypeOK'
  <2>0. mine \in Conns
    BY DEF IInv, Register, TypeOK, MineInv, Holding
  <2>1. CASE closed
    <3>1. closes' \in [Conns -> Nat]
          /\ conn' \in [Conns -> Handles \cup {"unused", "queued", "closed"}]
      BY <2>1 DEF IInv, Register, Release, TypeOK
    <3>2. connClosed' \subseteq Conns
      BY <2>0, <2>1 DEF IInv, Register, TypeOK
    <3> QED
      BY <1>1, <2>1, <3>1, <3>2 DEF IInv, Register, Fails, TypeOK, serviceVars, serverVars
  <2>2. CASE ~closed
    BY <1>1, <2>2 DEF IInv, Register, TypeOK, serviceVars, serverVars
  <2> QED
    BY <2>1, <2>2
<1> USE DEF Register, Fails, Release, serviceVars, hostVars, serverVars, loopVars, connVars,
            historyVars, IInv, TypeOK, ConnInv, PendingInv, MineInv, SnapshotInv, ServiceInv,
            UnclosedInv, Accepting, Holding, ListenerClosed, Handles, Linux, Windows
<1>3. ConnInv'
  <2>1. CASE closed
    BY SMTT(30), <1>2, <2>1
  <2>2. CASE ~closed
    BY SMTT(30), <1>2, <2>2
  <2> QED
    BY <2>1, <2>2
<1>4. PendingInv'
  BY SMTT(30), <1>2, ConnsAssumption
<1>5. MineInv'
  BY SMTT(30), <1>2, ConnsAssumption
<1>6. SnapshotInv'
  <2>1. CASE closed
    BY SMTT(30), <1>2, <2>1
  <2>2. CASE ~closed
    BY SMTT(30), <1>2, <2>2
  <2> QED
    BY <2>1, <2>2
<1>7. ServiceInv'
  BY SMTT(30), <1>2, ConnsAssumption
<1>8. UnclosedInv'
  BY SMTT(30), <1>2, ConnsAssumption
<1> QED
  BY <1>2, <1>3, <1>4, <1>5, <1>6, <1>7, <1>8

\* HandleOne gives the connection up.
LEMMA LeaveKeeps ==
    ASSUME IInv, Unregister \/ CloseConnection
    PROVE  IInv'
<1>1. failure' \subseteq Rules
  BY RuleNames
     DEF Unregister, CloseConnection, serviceVars, hostVars, serverVars, loopVars, connVars,
         historyVars, IInv, TypeOK
<1>2. TypeOK'
  <2>1. CASE Unregister
    BY SMTT(30), <1>1, <2>1, ConnsAssumption
       DEF Unregister, IInv, TypeOK, Handles, Linux, Windows, serviceVars, hostVars, serverVars,
           loopVars, connVars, historyVars
  <2>2. CASE CloseConnection
    <3>1. mine \in Conns
      BY <2>2 DEF IInv, CloseConnection, TypeOK, MineInv, Holding
    <3>2. connClosed' \subseteq Conns /\ unclosed' \subseteq Conns
      BY <2>2, <3>1 DEF IInv, CloseConnection, TypeOK
    <3>3. /\ closes' \in [Conns -> Nat]
          /\ conn' \in [Conns -> Handles \cup {"unused", "queued", "closed"}]
      BY <2>2, <3>1 DEF IInv, CloseConnection, Release, TypeOK
    <3> QED
      BY <1>1, <2>2, <3>2, <3>3 DEF IInv, CloseConnection, TypeOK, serviceVars, hostVars, serverVars
  <2> QED
    BY <2>1, <2>2
<1> USE DEF Unregister, CloseConnection, Release, serviceVars, hostVars, serverVars, loopVars,
            connVars, historyVars, IInv, TypeOK, ConnInv, PendingInv, MineInv, SnapshotInv,
            ServiceInv, UnclosedInv, Accepting, Holding, ListenerClosed, Handles, Linux, Windows
<1>3. ConnInv'
  BY SMTT(30), <1>2, ConnsAssumption
<1>4. PendingInv'
  BY SMTT(30), <1>2, ConnsAssumption
<1>5. MineInv'
  BY SMTT(30), <1>2, ConnsAssumption
<1>6. SnapshotInv'
  BY SMTT(30), <1>2, ConnsAssumption
<1>7. ServiceInv'
  BY SMTT(30), <1>2, ConnsAssumption
<1>8. UnclosedInv'
  BY SMTT(30), <1>2, ConnsAssumption
<1> QED
  BY <1>2, <1>3, <1>4, <1>5, <1>6, <1>7, <1>8

\* Runtime.Close, its listener and its active connection.
LEMMA CloseKeeps ==
    ASSUME IInv, BeginClose \/ CloseListener \/ CloseActive \/ FinishActive
    PROVE  IInv'
<1>1. failure' \subseteq Rules
  BY RuleNames
     DEF BeginClose, CloseListener, CloseActive, FinishActive, serviceVars, hostVars,
         serverVars, loopVars, connVars, historyVars, IInv, TypeOK
<1>2. TypeOK'
  <2>1. CASE BeginClose
    BY SMTT(30), <1>1, <2>1, ConnsAssumption
       DEF BeginClose, IInv, TypeOK, Handles, Linux, Windows, serviceVars, hostVars, serverVars,
           loopVars, connVars, historyVars
  <2>2. CASE CloseListener
    <3>1. closeErr' \in BOOLEAN
      <4>1. CASE CloseSocket \/ pending = None
        BY <2>2, <4>1, Zenon DEF IInv, CloseListener, CloseSocket, ClosePipe, TypeOK
      <4>2. CASE ClosePipe /\ pending # None
        BY <2>2, <4>2, Zenon DEF IInv, ClosePipe, TypeOK
      <4> QED
        BY <2>2, <4>1, <4>2 DEF IInv, CloseListener
    <3>2. closes' \in [Conns -> Nat]
      BY <2>2 DEF IInv, CloseListener, CloseSocket, ClosePipe, Release, TypeOK
    <3>3. conn' \in [Conns -> Handles \cup {"unused", "queued", "closed"}]
      BY <2>2 DEF IInv, CloseListener, CloseSocket, ClosePipe, Release, TypeOK
    <3>4. pending' \in Conns \cup {None}
          /\ socket' \in {"absent", "stale", "foreign", "bound"}
      BY <2>2 DEF IInv, CloseListener, CloseSocket, ClosePipe, TypeOK
    <3> QED
      BY <1>1, <2>2, <3>1, <3>2, <3>3, <3>4 DEF IInv, CloseListener, TypeOK, loopVars
  <2>3. CASE CloseActive
    BY SMTT(30), <1>1, <2>3, ConnsAssumption
       DEF CloseActive, IInv, TypeOK, Handles, Linux, Windows, serviceVars, hostVars,
           serverVars, loopVars, connVars, historyVars
  <2>4. CASE FinishActive
    <3>1. closeErr' \in BOOLEAN
      BY <2>4, Zenon DEF IInv, FinishActive, TypeOK
    <3>2. closes' \in [Conns -> Nat]
      BY <2>4 DEF IInv, FinishActive, Release, TypeOK, SnapshotInv
    <3>3. conn' \in [Conns -> Handles \cup {"unused", "queued", "closed"}]
      BY <2>4 DEF IInv, FinishActive, Release, TypeOK
    <3> QED
      BY <1>1, <2>4, <3>1, <3>2, <3>3 DEF IInv, FinishActive, TypeOK, serverVars, loopVars
  <2> QED
    BY <2>1, <2>2, <2>3, <2>4
<1> USE DEF BeginClose, CloseListener, CloseActive, FinishActive, CloseSocket, ClosePipe,
            Release, serviceVars, hostVars, serverVars, loopVars, connVars, historyVars, IInv,
            TypeOK, ConnInv, PendingInv, MineInv, SnapshotInv, ServiceInv, UnclosedInv,
            Accepting, Holding, ListenerClosed, Handles, Linux, Windows
<1>3. ConnInv'
  BY SMTT(30), <1>2, ConnsAssumption
<1>4. PendingInv'
  BY SMTT(30), <1>2, ConnsAssumption
<1>5. MineInv'
  BY SMTT(30), <1>2, ConnsAssumption
<1>6. SnapshotInv'
  BY SMTT(30), <1>2, ConnsAssumption
<1>7. ServiceInv'
  BY SMTT(30), <1>2, ConnsAssumption
<1>8. UnclosedInv'
  BY SMTT(30), <1>2, ConnsAssumption
<1> QED
  BY <1>2, <1>3, <1>4, <1>5, <1>6, <1>7, <1>8

\* The rest of the service thread.
LEMMA ServiceKeeps ==
    ASSUME IInv, Start \/ StartFails \/ Stop \/ CloseRunner \/ Exit
    PROVE  IInv'
<1>1. failure' \subseteq Rules
  BY RuleNames
     DEF Start, StartFails, Stop, CloseRunner, Exit, serviceVars, hostVars, serverVars,
         loopVars, connVars, historyVars, IInv, TypeOK
<1>2. TypeOK'
  <2>1. CASE Start
    BY SMTT(30), <1>1, <2>1, ConnsAssumption
       DEF Start, BindSocket, PathFree, CreateFirstPipe, IInv, TypeOK, Handles, Linux, Windows,
           serviceVars, hostVars, serverVars, loopVars, connVars, historyVars
  <2>2. CASE StartFails
    BY SMTT(30), <1>1, <2>2, ConnsAssumption
       DEF StartFails, IInv, TypeOK, Handles, Linux, Windows, serviceVars, hostVars, serverVars,
           loopVars, connVars, historyVars
  <2>3. CASE Stop
    BY SMTT(30), <1>1, <2>3, ConnsAssumption
       DEF Stop, IInv, TypeOK, Handles, Linux, Windows, serviceVars, hostVars, serverVars,
           loopVars, connVars, historyVars
  <2>4. CASE CloseRunner
    <3>1. closeErr' \in BOOLEAN /\ runnerClosed' \in BOOLEAN
      <4>1. CASE runnerClosed' = TRUE /\ closeErr' = closeErr
        BY <4>1 DEF IInv, TypeOK
      <4>2. CASE closeErr' = TRUE /\ runnerClosed' = runnerClosed
        BY <4>2 DEF IInv, TypeOK
      <4> QED
        BY <2>4, <4>1, <4>2 DEF IInv, CloseRunner
    <3> QED
      BY <1>1, <2>4, <3>1 DEF IInv, CloseRunner, TypeOK, serverVars, loopVars, connVars, historyVars
  <2>5. CASE Exit
    BY SMTT(30), <1>1, <2>5, ConnsAssumption
       DEF Exit, IInv, TypeOK, Handles, Linux, Windows, serviceVars, hostVars, serverVars,
           loopVars, connVars, historyVars
  <2> QED
    BY <2>1, <2>2, <2>3, <2>4, <2>5
<1> USE DEF Start, StartFails, Stop, CloseRunner, Exit, BindSocket, PathFree, CreateFirstPipe,
            serviceVars, hostVars, serverVars, loopVars, connVars, historyVars, IInv, TypeOK,
            ConnInv, PendingInv, MineInv, SnapshotInv, ServiceInv, UnclosedInv, Accepting,
            Holding, ListenerClosed, Handles, Linux, Windows
<1>3. ConnInv'
  BY SMTT(30), <1>2, ConnsAssumption
<1>4. PendingInv'
  BY SMTT(30), <1>2, ConnsAssumption
<1>5. MineInv'
  BY SMTT(30), <1>2, ConnsAssumption
<1>6. SnapshotInv'
  BY SMTT(30), <1>2, ConnsAssumption
<1>7. ServiceInv'
  BY SMTT(30), <1>2, ConnsAssumption
<1>8. UnclosedInv'
  BY SMTT(30), <1>2, ConnsAssumption
<1> QED
  BY <1>2, <1>3, <1>4, <1>5, <1>6, <1>7, <1>8

\* The clients.
LEMMA ClientKeeps ==
    ASSUME IInv, ClientStep
    PROVE  IInv'
<1>1. failure' \subseteq Rules
  BY RuleNames
     DEF ClientStep, ClientConnects, ClientSendsPreface, ClientLeaves, serviceVars, hostVars,
         serverVars, loopVars, connVars, historyVars, IInv, TypeOK
<1>2. TypeOK'
  BY SMTT(30), <1>1, ConnsAssumption
     DEF ClientStep, ClientConnects, ClientSendsPreface, ClientLeaves, IInv, TypeOK, Handles,
         Linux, Windows, serviceVars, hostVars, serverVars, loopVars, connVars, historyVars
<1> USE DEF ClientStep, ClientConnects, ClientSendsPreface, ClientLeaves, serviceVars, hostVars,
            serverVars, loopVars, connVars, historyVars, IInv, TypeOK, ConnInv, PendingInv,
            MineInv, SnapshotInv, ServiceInv, UnclosedInv, Accepting, Holding, ListenerClosed,
            Handles, Linux, Windows
<1>3. ConnInv'
  BY SMTT(30), <1>2, ConnsAssumption
<1>4. PendingInv'
  BY SMTT(30), <1>2, ConnsAssumption
<1>5. MineInv'
  BY SMTT(30), <1>2, ConnsAssumption
<1>6. SnapshotInv'
  BY SMTT(30), <1>2, ConnsAssumption
<1>7. ServiceInv'
  BY SMTT(30), <1>2, ConnsAssumption
<1>8. UnclosedInv'
  BY SMTT(30), <1>2, ConnsAssumption
<1> QED
  BY <1>2, <1>3, <1>4, <1>5, <1>6, <1>7, <1>8

\* The process ends in the middle of an accept.
LEMMA RevertKeeps ==
    ASSUME IInv, RevertFails
    PROVE  IInv'
<1>1. failure' \subseteq Rules
  BY RuleNames
     DEF RevertFails, serviceVars, hostVars, serverVars, loopVars, connVars, historyVars, IInv,
         TypeOK
<1>2. TypeOK'
  BY SMTT(30), <1>1, ConnsAssumption
     DEF RevertFails, IInv, TypeOK, Handles, Linux, Windows, serviceVars, hostVars, serverVars,
         loopVars, connVars, historyVars
<1> USE DEF RevertFails, serviceVars, hostVars, serverVars, loopVars, connVars, historyVars,
            IInv, TypeOK, ConnInv, PendingInv, MineInv, SnapshotInv, ServiceInv, UnclosedInv,
            Accepting, Holding, ListenerClosed, Handles, Linux, Windows
<1>3. ConnInv'
  BY SMTT(30), <1>2, ConnsAssumption
<1>4. PendingInv'
  BY SMTT(30), <1>2, ConnsAssumption
<1>5. MineInv'
  BY SMTT(30), <1>2, ConnsAssumption
<1>6. SnapshotInv'
  BY SMTT(30), <1>2, ConnsAssumption
<1>7. ServiceInv'
  BY SMTT(30), <1>2, ConnsAssumption
<1>8. UnclosedInv'
  BY SMTT(30), <1>2, ConnsAssumption
<1> QED
  BY <1>2, <1>3, <1>4, <1>5, <1>6, <1>7, <1>8

\* The accept of Windows.
AcceptStep ==
    \/ ConnectPipe \/ PipeConnected \/ StartPreface \/ ReadPreface \/ VerifyPeer
    \/ VerifyPeerFails

\* Such a step goes on with its instance, or gives it up.
GoesOn == loop' \in Accepting /\ UNCHANGED <<pending, mine, failure, conn, closes>>
GivesUp == loop' = "judge" /\ mine' = None /\ DiscardPending /\ failure' \subseteq Rules

LEMMA AcceptEffect ==
    ASSUME AcceptStep
    PROVE  loop \in Accepting /\ UNCHANGED unchangedByPeer /\ (GoesOn \/ GivesUp)
BY RuleNames
   DEF AcceptStep, ConnectPipe, PipeConnected, StartPreface, ReadPreface, VerifyPeer,
       VerifyPeerFails, Moves, AcceptFails, Fails, unchangedByAccept, Accepting, GoesOn, GivesUp

LEMMA InfraStep == ASSUME infra \in BOOLEAN, AcceptStep PROVE infra' \in BOOLEAN
<1>1. infra' = infra \/ infra' = TRUE
  BY DEF AcceptStep, ConnectPipe, PipeConnected, StartPreface, ReadPreface, VerifyPeer,
         VerifyPeerFails, unchangedByAccept
<1> QED
  BY <1>1

LEMMA AcceptKeeps == ASSUME IInv, AcceptStep PROVE IInv'
<1>1. infra' \in BOOLEAN
  BY InfraStep DEF IInv, TypeOK
<1>2. TypeOK'
  <2>1. CASE GoesOn
    BY SMTT(30), <1>1, <2>1, AcceptEffect
       DEF GoesOn, IInv, TypeOK, Accepting, unchangedByPeer, serviceVars, hostVars
  <2>2. CASE GivesUp
    <3>1. pending' \in Conns \cup {None} /\ mine' \in Conns \cup {None}
      BY <2>2 DEF GivesUp, DiscardPending, IInv, TypeOK
    <3>2. closes' \in [Conns -> Nat]
          /\ conn' \in [Conns -> Handles \cup {"unused", "queued", "closed"}]
      BY <2>2 DEF GivesUp, DiscardPending, Release, IInv, TypeOK
    <3> QED
      BY SMTT(30), <1>1, <2>2, <3>1, <3>2, AcceptEffect
         DEF GivesUp, IInv, TypeOK, unchangedByPeer, serviceVars, hostVars
  <2> QED
    BY <2>1, <2>2, AcceptEffect
<1> USE DEF IInv, TypeOK, ConnInv, PendingInv, MineInv, SnapshotInv, ServiceInv, UnclosedInv,
            Accepting, Holding, ListenerClosed, Handles, Linux, Windows
<1>3. ConnInv'
  BY SMTT(30), <1>2, AcceptEffect, ConnsAssumption
     DEF GoesOn, GivesUp, DiscardPending, Release, unchangedByPeer, serviceVars, hostVars
<1>4. PendingInv'
  BY SMTT(30), <1>2, AcceptEffect, ConnsAssumption
     DEF GoesOn, GivesUp, DiscardPending, Release, unchangedByPeer, serviceVars, hostVars
<1>5. MineInv'
  BY SMTT(30), <1>2, AcceptEffect, ConnsAssumption
     DEF GoesOn, GivesUp, DiscardPending, Release, unchangedByPeer, serviceVars, hostVars
<1>6. SnapshotInv'
  BY SMTT(30), <1>2, AcceptEffect, ConnsAssumption
     DEF GoesOn, GivesUp, DiscardPending, Release, unchangedByPeer, serviceVars, hostVars
<1>7. ServiceInv'
  BY SMTT(30), <1>2, AcceptEffect, ConnsAssumption
     DEF GoesOn, GivesUp, DiscardPending, Release, unchangedByPeer, serviceVars, hostVars
<1>8. UnclosedInv'
  BY SMTT(30), <1>2, AcceptEffect, ConnsAssumption
     DEF GoesOn, GivesUp, DiscardPending, Release, unchangedByPeer, serviceVars, hostVars
<1> QED
  BY <1>2, <1>3, <1>4, <1>5, <1>6, <1>7, <1>8

LEMMA Stutter == ASSUME IInv, UNCHANGED vars PROVE IInv'
BY DEF IInv, TypeOK, ConnInv, PendingInv, MineInv, SnapshotInv, ServiceInv, UnclosedInv,
       Linux, Windows, vars, serviceVars, hostVars, serverVars, loopVars, connVars, historyVars

LEMMA Invariant == Spec => []IInv
<1>1. ASSUME IInv, [Next]_vars PROVE IInv'
  BY <1>1, Steps, TurnKeeps, SessionKeeps, TakeKeeps, AcceptSocketKeeps, RegisterKeeps, LeaveKeeps,
     CloseKeeps, ServiceKeeps, ClientKeeps, RevertKeeps, AcceptKeeps, Stutter
     DEF NextSteps, AcceptStep
<1> QED
  BY InitInv, <1>1, PTL DEF Spec

-----------------------------------------------------------------------------
(***************************************************************************)
(* The theorems.                                                           *)
(***************************************************************************)
\* Every variable of the service stays in its type (brokerservice, brokerhost).
THEOREM TypeCorrect == Spec => []TypeOK
BY Invariant, PTL DEF IInv

\* Each handle is closed once, whoever takes it, and none under an I/O; on
\* Windows a handle that would not close ends the loop (discardPending,
\* transferPending, connNative.close, IsRecoverableConnectionError).
THEOREM HandlesStayOwned == Spec => []HandlesOwned
<1>1. IInv => HandlesOwned
  BY DEF IInv, TypeOK, ConnInv, MineInv, UnclosedInv, HandlesOwned
<1> QED
  BY Invariant, <1>1, PTL

\* A service that reports a clean end has nothing left (stopService,
\* Runtime.Close, Server.Close).
THEOREM CleanEnds == Spec => []CleanEndIsQuiet
<1>1. IInv => CleanEndIsQuiet
  <2> SUFFICES ASSUME IInv, exit = "clean" PROVE CleanEndIsQuiet
    BY DEF CleanEndIsQuiet
  <2>1. loop = "done" /\ serverClosed /\ runnerClosed /\ socket = "absent" /\ scm = "exited"
    BY DEF IInv, ServiceInv
  <2>2. io = "none" /\ active = None /\ pending = None
    BY <2>1 DEF IInv, MineInv, PendingInv
  <2>3. ASSUME NEW c \in Conns, conn[c] \in Handles PROVE closes[c] = 1
    BY <2>1, <2>2, <2>3, ConnsAssumption DEF IInv, ConnInv, Holding
  <2> QED
    BY <2>1, <2>2, <2>3 DEF CleanEndIsQuiet
<1> QED
  BY Invariant, <1>1, PTL
=============================================================================
