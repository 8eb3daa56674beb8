-------------------------- MODULE LifecycleProofs --------------------------
(* Proofs, for any number of nodes, commands, streams and tokens: first    *)
(* that the directory lock makes the two-transaction token commands safe   *)
(* (TokenStore), then that a serve process with all that outlives its      *)
(* connections and servers does nothing TokenStore does not allow, and     *)
(* stores nothing under a token that is not active (Lifecycle), and last   *)
(* that its shutdown is never stuck.                                       *)
EXTENDS Lifecycle, TLAPS

(***************************************************************************)
(* An empty store that nobody has opened satisfies IInv.                   *)
(***************************************************************************)
LEMMA InitIInv == Init => IInv
  BY TokenAssumption
  DEF Init, IInv, TypeOK, StreamTokenActive, RevokedStaysDead, NoRecord,
      Record, NoToken, Tokens, Closed, NotRunning

(***************************************************************************)
(* While a command runs it is the only one, and no stream is open.         *)
(***************************************************************************)
LEMMA CommandIsAlone ==
  ASSUME IInv, NEW p \in Procs, cli[p].pc # "idle"
  PROVE  /\ lock = "cli"
         /\ cli[p].node \in Nodes
         /\ cli[p].seen = record[cli[p].node]
         /\ \A q \in Procs : q # p => cli[q].pc = "idle"
         /\ \A s \in Streams : stream[s] = Closed
  BY DEF IInv

(***************************************************************************)
(* Once it has closed the store, no command runs and none has the lock.    *)
(***************************************************************************)
LEMMA CloseEndsCommands ==
  ASSUME IInv, NEW p \in Procs, cli[p].pc # "idle", Close(p)
  PROVE  /\ lock' = "none"
         /\ \A q \in Procs : cli'[q].pc = "idle"
         /\ cli' \in [Procs -> [pc: {"idle", "issue", "revoke"},
                                node: Nodes \cup {"none"}, seen: Record]]
  BY CommandIsAlone, TokenAssumption
  DEF IInv, TypeOK, Close, NotRunning, NoRecord, Record, NoToken, Tokens

(***************************************************************************)
(* openTokenStore and getAgentToken preserve IInv.                         *)
(***************************************************************************)
LEMMA OpenAndGetIInv ==
  ASSUME IInv, NEW p \in Procs, NEW op \in {"issue", "revoke"}, NEW n \in Nodes,
         OpenAndGet(p, op, n)
  PROVE  IInv'
<1>1. TypeOK'
  BY DEF IInv, TypeOK, OpenAndGet
<1>2. \A q \in Procs : cli[q].pc = "idle"
  BY DEF IInv, OpenAndGet, CanOpen
<1>3. \A s \in Streams : stream[s] = Closed
  BY DEF IInv, OpenAndGet, CanOpen
<1>4. \A q \in Procs : q # p => cli'[q] = cli[q]
  BY DEF OpenAndGet, IInv, TypeOK
<1>5. cli'[p] = [pc |-> op, node |-> n, seen |-> record[n]]
  BY DEF OpenAndGet, IInv, TypeOK
<1>6. \A q \in Procs : cli'[q].pc # "idle" =>
          /\ lock' = "cli"
          /\ cli'[q].node \in Nodes /\ cli'[q].seen = record'[cli'[q].node]
          /\ \A r \in Procs : r # q => cli'[r].pc = "idle"
  BY <1>2, <1>4, <1>5 DEF OpenAndGet
<1>7. /\ record' = record /\ stream' = stream
      /\ issued' = issued /\ dead' = dead
  BY DEF OpenAndGet
<1> QED
  BY <1>1, <1>3, <1>6, <1>7 DEF IInv, StreamTokenActive, RevokedStaysDead

(***************************************************************************)
(* The write of IssueToken preserves IInv: the new token is fresh.         *)
(***************************************************************************)
LEMMA IssuePutIInv ==
  ASSUME IInv, NEW p \in Procs, IssuePut(p)
  PROVE  IInv'
<1> DEFINE m == cli[p].node
<1>1. m \in Nodes /\ \A s \in Streams : stream[s] = Closed
  BY CommandIsAlone DEF IssuePut
<1>2. /\ lock' = "none" /\ \A q \in Procs : cli'[q].pc = "idle"
      /\ cli' \in [Procs -> [pc: {"idle", "issue", "revoke"},
                             node: Nodes \cup {"none"}, seen: Record]]
  BY CloseEndsCommands DEF IssuePut
<1>3. /\ issued' = issued + 1 /\ issued' \in Tokens /\ issued \in Nat
      /\ stream' = stream /\ dead' = dead
  BY TokenAssumption DEF IssuePut, IInv, TypeOK, Tokens
<1>4. record'[m] = [token |-> issued', status |-> "active"]
  BY <1>1 DEF IssuePut, IInv, TypeOK
<1>5. \A n \in Nodes : n # m => record'[n] = record[n]
  BY <1>1 DEF IssuePut, IInv, TypeOK
<1>6. record' \in [Nodes -> Record]
  <2>1. [token |-> issued', status |-> "active"] \in Record
    BY <1>3 DEF Record
  <2> QED
    BY <2>1 DEF IssuePut, IInv, TypeOK
<1>7. TypeOK'
  BY <1>2, <1>3, <1>6 DEF IInv, TypeOK, Tokens
<1>8. \A n \in Nodes : record[n].token \in Int /\ record[n].token <= issued
  <2>1. \A t \in Tokens \cup {NoToken} : t \in Int
    BY TokenAssumption DEF Tokens, NoToken
  <2>2. \A n \in Nodes : record[n].token \in Tokens \cup {NoToken}
    BY DEF IInv, TypeOK, Record
  <2> QED
    BY <2>1, <2>2 DEF IInv
<1>9. issued' # NoToken /\ \A token \in dead : token \in Int /\ token <= issued
  BY <1>3 DEF IInv, TypeOK, Tokens, NoToken
<1>10. RevokedStaysDead'
  BY <1>3, <1>4, <1>5, <1>9 DEF IInv, RevokedStaysDead
<1>11. \A n \in Nodes : record'[n].token <= issued'
  BY <1>3, <1>4, <1>5, <1>8
<1>12. \A k, n \in Nodes : k # n /\ record'[k].token = record'[n].token =>
          record'[k].token = NoToken
  <2> SUFFICES ASSUME NEW k \in Nodes, NEW n \in Nodes, k # n,
                      record'[k].token = record'[n].token
               PROVE  record'[k].token = NoToken
    OBVIOUS
  <2>1. k # m /\ n # m
    BY <1>3, <1>4, <1>5, <1>8
  <2> QED
    BY <2>1, <1>5 DEF IInv
<1>13. \A n \in Nodes : record'[n].status # "none" => record'[n].token # NoToken
  BY <1>4, <1>5, <1>9 DEF IInv
<1>14. \A token \in dead' : token <= issued'
  BY <1>3, <1>9
<1> QED
  BY <1>1, <1>2, <1>3, <1>7, <1>10, <1>11, <1>12, <1>13, <1>14
  DEF IInv, StreamTokenActive

(***************************************************************************)
(* The write of RevokeToken preserves IInv: only one node has the token.   *)
(***************************************************************************)
LEMMA RevokePutIInv ==
  ASSUME IInv, NEW p \in Procs, RevokePut(p)
  PROVE  IInv'
<1> DEFINE m == cli[p].node
<1>1. /\ m \in Nodes /\ cli[p].seen = record[m]
      /\ \A s \in Streams : stream[s] = Closed
  BY CommandIsAlone DEF RevokePut
<1>2. /\ lock' = "none" /\ \A q \in Procs : cli'[q].pc = "idle"
      /\ cli' \in [Procs -> [pc: {"idle", "issue", "revoke"},
                             node: Nodes \cup {"none"}, seen: Record]]
  BY CloseEndsCommands DEF RevokePut
<1>3. /\ issued' = issued /\ stream' = stream
      /\ dead' = dead \cup {record[m].token}
  BY <1>1 DEF RevokePut
<1>4. record'[m].token = record[m].token /\ record'[m].status = "revoked"
  BY <1>1 DEF RevokePut, Revoked, IInv, TypeOK, Record
<1>5. \A n \in Nodes : n # m => record'[n] = record[n]
  BY <1>1 DEF RevokePut, IInv, TypeOK
<1>6. record[m].status = "active" /\ record[m].token # NoToken
  BY <1>1 DEF RevokePut, IInv
<1>7. record[m].token \in Tokens
  BY <1>1, <1>6 DEF IInv, TypeOK, Record
<1>8. record' \in [Nodes -> Record]
  <2>1. Revoked(record[m]) \in Record
    BY <1>1 DEF Revoked, IInv, TypeOK, Record
  <2> QED
    BY <1>1, <2>1 DEF RevokePut, IInv, TypeOK
<1>9. TypeOK'
  BY <1>2, <1>3, <1>7, <1>8 DEF IInv, TypeOK
<1>10. RevokedStaysDead'
  BY <1>1, <1>3, <1>4, <1>5, <1>6 DEF IInv, RevokedStaysDead
<1>11. \A n \in Nodes : record'[n].token = record[n].token
  BY <1>4, <1>5
<1>12. \A n \in Nodes : record'[n].status # "none" => record'[n].token # NoToken
  BY <1>4, <1>5, <1>6 DEF IInv
<1>13. \A token \in dead' : token <= issued'
  BY <1>1, <1>3 DEF IInv
<1> QED
  BY <1>1, <1>2, <1>3, <1>9, <1>10, <1>11, <1>12, <1>13
  DEF IInv, StreamTokenActive

(***************************************************************************)
(* Every step of commands, collector and streams preserves IInv.           *)
(***************************************************************************)
LEMMA NextIInv == IInv /\ [Next]_vars => IInv'
<1> SUFFICES ASSUME IInv, [Next]_vars PROVE IInv'
  OBVIOUS
<1>1. ASSUME NEW p \in Procs, Command(p) PROVE IInv'
  <2>1. ASSUME GiveUp(p) PROVE IInv'
    <3>1. /\ lock' = "none" /\ \A q \in Procs : cli'[q].pc = "idle"
          /\ cli' \in [Procs -> [pc: {"idle", "issue", "revoke"},
                                 node: Nodes \cup {"none"}, seen: Record]]
          /\ \A s \in Streams : stream[s] = Closed
      BY <2>1, CloseEndsCommands, CommandIsAlone DEF GiveUp
    <3> QED
      BY <2>1, <3>1
      DEF GiveUp, IInv, TypeOK, StreamTokenActive, RevokedStaysDead
  <2> QED
    BY <1>1, <2>1, OpenAndGetIInv, IssuePutIInv, RevokePutIInv DEF Command
<1>2. CASE ServeStart
  BY <1>2 DEF ServeStart, CanOpen, IInv, TypeOK, StreamTokenActive, RevokedStaysDead
<1>3. CASE ServeStop
  BY <1>3 DEF ServeStop, IInv, TypeOK, StreamTokenActive, RevokedStaysDead,
              Closed, NoToken
<1>4. ASSUME NEW s \in Streams, NEW token \in 1 .. issued, NEW n \in Nodes,
             OpenStream(s, token, n)
      PROVE  IInv'
  <2>1. token \in Tokens
    BY TokenAssumption DEF IInv, TypeOK, Tokens
  <2>2. /\ lock = "serve" /\ lock' = lock /\ record' = record /\ cli' = cli
        /\ issued' = issued /\ dead' = dead
    BY <1>4 DEF OpenStream
  <2>3. stream'[s] = [token |-> token, node |-> n]
    BY <1>4 DEF OpenStream, IInv, TypeOK
  <2>4. \A r \in Streams : r # s => stream'[r] = stream[r]
    BY <1>4 DEF OpenStream, IInv, TypeOK
  <2>5. record[n] = [token |-> token, status |-> "active"]
    BY <1>4 DEF OpenStream, Matches, IInv, TypeOK, Record
  <2>6. TypeOK'
    BY <1>4, <2>1, <2>2 DEF OpenStream, IInv, TypeOK
  <2>7. StreamTokenActive'
    BY <2>2, <2>3, <2>4, <2>5 DEF IInv, StreamTokenActive
  <2>8. \A r \in Streams : stream'[r] # Closed =>
            lock' = "serve" /\ stream'[r].node \in Nodes
    BY <2>2, <2>3, <2>4 DEF IInv
  <2> QED
    BY <2>2, <2>6, <2>7, <2>8 DEF IInv, RevokedStaysDead
<1>5. ASSUME NEW s \in Streams, CloseStream(s) PROVE IInv'
  <2>1. /\ lock' = lock /\ record' = record /\ cli' = cli
        /\ issued' = issued /\ dead' = dead
    BY <1>5 DEF CloseStream
  <2>2. \A r \in Streams : stream'[r] = Closed \/ stream'[r] = stream[r]
    BY <1>5 DEF CloseStream, IInv, TypeOK
  <2>3. TypeOK'
    BY <1>5, <2>1 DEF CloseStream, IInv, TypeOK, Closed, NoToken
  <2> QED
    BY <2>1, <2>2, <2>3 DEF IInv, StreamTokenActive, RevokedStaysDead
<1>6. CASE UNCHANGED vars
  BY <1>6 DEF vars, IInv, TypeOK, StreamTokenActive, RevokedStaysDead
<1> QED
  BY <1>1, <1>2, <1>3, <1>4, <1>5, <1>6 DEF Next

(***************************************************************************)
(* The lock discipline holds in every reachable state.                     *)
(***************************************************************************)
THEOREM InductiveInvariant == Spec => []IInv
  BY InitIInv, NextIInv, PTL DEF Spec

(***************************************************************************)
(* No open stream rests on a token revoked or replaced since it opened.    *)
(***************************************************************************)
THEOREM StreamTokenActiveHolds == Spec => []StreamTokenActive
<1>1. IInv => StreamTokenActive
  BY DEF IInv
<1> QED
  BY <1>1, InductiveInvariant, PTL

(***************************************************************************)
(* A revoked token (RevokeToken) is never again an active one.             *)
(***************************************************************************)
THEOREM RevokedStaysDeadHolds == Spec => []RevokedStaysDead
<1>1. IInv => RevokedStaysDead
  BY DEF IInv
<1> QED
  BY <1>1, InductiveInvariant, PTL

(***************************************************************************)
(* No step replaces an active token (IssueToken's check is never stale).   *)
(***************************************************************************)
THEOREM OnlyRevokedReplacedHolds == Spec => OnlyRevokedReplaced
<1> DEFINE Kept == \A n \in Nodes : record'[n].token # record[n].token =>
                       record[n].status # "active"
<1>1. IInv /\ [Next]_vars => [Kept]_vars
  <2> SUFFICES ASSUME IInv, Next PROVE Kept
    OBVIOUS
  <2>1. ASSUME NEW p \in Procs, Command(p) PROVE Kept
    <3>1. CASE IssuePut(p)
      <4>1. /\ cli[p].node \in Nodes /\ record[cli[p].node].status # "active"
        BY <3>1, CommandIsAlone DEF IssuePut, MayIssue
      <4>2. \A n \in Nodes : n # cli[p].node => record'[n] = record[n]
        BY <3>1 DEF IssuePut, IInv, TypeOK
      <4> QED
        BY <4>1, <4>2
    <3>2. CASE RevokePut(p)
      <4>1. cli[p].node \in Nodes /\ cli[p].seen = record[cli[p].node]
        BY <3>2, CommandIsAlone DEF RevokePut
      <4>2. record'[cli[p].node].token = record[cli[p].node].token
        BY <3>2, <4>1 DEF RevokePut, Revoked, IInv, TypeOK, Record
      <4>3. \A n \in Nodes : n # cli[p].node => record'[n] = record[n]
        BY <3>2 DEF RevokePut, IInv, TypeOK
      <4> QED
        BY <4>2, <4>3
    <3> QED
      BY <2>1, <3>1, <3>2 DEF Command, OpenAndGet, GiveUp
  <2>2. CASE ServeStart \/ ServeStop
    BY <2>2 DEF ServeStart, ServeStop
  <2>3. ASSUME NEW s \in Streams, NEW token \in 1 .. issued, NEW n \in Nodes,
               OpenStream(s, token, n)
        PROVE  Kept
    BY <2>3 DEF OpenStream
  <2>4. ASSUME NEW s \in Streams, CloseStream(s) PROVE Kept
    BY <2>4 DEF CloseStream
  <2> QED
    BY <2>1, <2>2, <2>3, <2>4 DEF Next
<1> QED
  BY <1>1, InductiveInvariant, PTL DEF Spec, OnlyRevokedReplaced
-----------------------------------------------------------------------------
(***************************************************************************)
(* A step of the process is a step of the token store or leaves it alone.  *)
(***************************************************************************)
LEMMA StepIsTokenStep == [LNext]_lvars => [Next]_vars
<1> SUFFICES ASSUME [LNext]_lvars PROVE Next \/ UNCHANGED vars
  OBVIOUS
<1>1. CASE StoreNew
  BY <1>1 DEF StoreNew, Next
<1>2. CASE StoreCloses \/ Kill
  BY <1>2 DEF StoreCloses, Kill, Next
<1>3. ASSUME NEW s \in Streams, StreamStep(s) PROVE Next \/ UNCHANGED vars
  <2>1. ASSUME NEW token \in 1 .. issued, NEW n \in Nodes, StreamOpens(s, token, n)
        PROVE  Next
    BY <2>1 DEF StreamOpens, Next
  <2>2. CASE HandlerReturns(s)
    BY <2>2 DEF HandlerReturns, Next
  <2> QED
    BY <1>3, <2>1, <2>2
    DEF StreamStep, AgentLeaves, Checks, Receive, Commit, Refuse, WriteReturns, WriteAbandoned
<1>4. ASSUME NEW p \in Procs, Command(p) PROVE Next
  BY <1>4 DEF Next
<1>5. CASE UNCHANGED lvars
  BY <1>5 DEF lvars
<1> QED
  BY <1>1, <1>2, <1>3, <1>4, <1>5
  DEF LNext, RestStarts, Listens, StartFails, Signal, StopBegins, GracefulStopDone,
      GraceExpires, ServeFails, CloseBegins, GcRound, GcRoundEnds, GcStops, Exit,
      RestRequest, RestAnswers, RestShutdown, RestEnds

(***************************************************************************)
(* Nothing is on the way before the first process starts.                  *)
(***************************************************************************)
LEMMA InitLIInv == LInit => LIInv
<1> SUFFICES ASSUME LInit PROVE LIInv
  OBVIOUS
<1>1. IInv
  BY InitIInv DEF LInit
<1> QED
  BY <1>1 DEF LInit, Init, LIInv, LInv, AllClosed, NoHandlers, NoWrites, NoWrite, Closed

(***************************************************************************)
(* Steps that touch neither the store nor the streams.                     *)
(***************************************************************************)
LEMMA QuietLIInv ==
  ASSUME LIInv, UNCHANGED <<vars, streams>>,
         phase' \in {"down", "starting", "listening", "serving", "stopping",
                     "returned", "closing", "exiting"},
         ctx' \in {"live", "done"}, gc' \in {"off", "idle", "round", "done"},
         rest' \in {"off", "idle", "busy", "draining"},
         phase' \in {"down", "exiting"} => phase' = phase /\ gc' = gc,
         phase \in {"down", "exiting"} => phase' = phase
  PROVE  LIInv'
<1>1. IInv'
  BY NextIInv DEF LIInv
<1> QED
  BY <1>1 DEF LIInv, LInv, vars, streams

(***************************************************************************)
(* Start-up, stop, the GC goroutine and the REST server.                   *)
(***************************************************************************)
LEMMA ProcessLIInv ==
  ASSUME LIInv,
         \/ RestStarts \/ Listens \/ StartFails \/ Signal \/ StopBegins
         \/ GracefulStopDone \/ ServeFails \/ CloseBegins
         \/ GcRound \/ GcRoundEnds \/ GcStops
         \/ RestRequest \/ RestAnswers \/ RestShutdown \/ RestEnds
  PROVE  LIInv'
<1>1. /\ phase \in {"down", "starting", "listening", "serving", "stopping",
                    "returned", "closing", "exiting"}
      /\ ctx \in {"live", "done"} /\ gc \in {"off", "idle", "round", "done"}
      /\ rest \in {"off", "idle", "busy", "draining"}
      /\ phase = "exiting" => gc = "done"
      /\ phase = "down" => gc = "off"
  BY DEF LIInv, LInv
<1>2. CASE RestStarts \/ Listens \/ StartFails
  BY <1>1, <1>2, QuietLIInv DEF RestStarts, Listens, StartFails
<1>3. CASE Signal \/ StopBegins \/ GracefulStopDone
  BY <1>1, <1>3, QuietLIInv DEF Signal, StopBegins, GracefulStopDone
<1>4. CASE ServeFails \/ CloseBegins
  BY <1>1, <1>4, QuietLIInv DEF ServeFails, CloseBegins
<1>5. CASE GcRound \/ GcRoundEnds \/ GcStops
  BY <1>1, <1>5, QuietLIInv DEF GcRound, GcRoundEnds, GcStops
<1>6. CASE RestRequest \/ RestAnswers \/ RestShutdown \/ RestEnds
  BY <1>1, <1>6, QuietLIInv DEF RestRequest, RestAnswers, RestShutdown, RestEnds
<1> QED
  BY <1>2, <1>3, <1>4, <1>5, <1>6

(***************************************************************************)
(* Opening and closing the store, and the end of the process.              *)
(***************************************************************************)
LEMMA StoreLIInv ==
  ASSUME LIInv, IInv', StoreNew \/ GraceExpires \/ StoreCloses \/ Exit \/ Kill
  PROVE  LIInv'
<1>1. CASE StoreNew
  BY <1>1 DEF StoreNew, ServeStart, streams, LIInv, LInv, NoHandlers, NoWrites, NoWrite
<1>2. CASE GraceExpires
  BY <1>2 DEF GraceExpires, vars, AllClosed, LIInv, LInv
<1>3. CASE StoreCloses
  BY <1>3 DEF StoreCloses, ServeStop, GcDone, streams, LIInv, LInv
<1>4. CASE Exit
  BY <1>4 DEF Exit, ProcessEnds, vars, AllClosed, NoHandlers, NoWrites, NoWrite, Closed,
              LIInv, LInv, IInv
<1>5. CASE Kill
  BY <1>5 DEF Kill, ServeStop, ProcessEnds, AllClosed, NoHandlers, NoWrites, NoWrite,
              Closed, LIInv, LInv
<1> QED
  BY <1>1, <1>2, <1>3, <1>4, <1>5

(***************************************************************************)
(* Token commands run while no process has the store open.                 *)
(***************************************************************************)
LEMMA CommandLIInv ==
  ASSUME LIInv, IInv', NEW p \in Procs, Command(p), UNCHANGED <<process, streams>>
  PROVE  LIInv'
<1>1. lock # "serve" /\ lock' # "serve" /\ UNCHANGED stream
  <2>1. CASE cli[p].pc = "idle"
    BY <2>1 DEF Command, OpenAndGet, CanOpen, IssuePut, RevokePut, GiveUp
  <2>2. CASE cli[p].pc # "idle"
    <3>1. lock = "cli"
      BY <2>2, CommandIsAlone DEF LIInv
    <3> QED
      BY <2>2, <3>1 DEF Command, OpenAndGet, IssuePut, RevokePut, GiveUp, Close
  <2> QED
    BY <2>1, <2>2
<1> QED
  BY <1>1 DEF LIInv, LInv, process, streams

(***************************************************************************)
(* A step of one stream leaves the others alone, and there are no handlers *)
(* or writes to take one before the process has started.                   *)
(***************************************************************************)
LEMMA OneStream ==
  ASSUME LIInv, IInv', NEW s \in Streams,
         UNCHANGED <<process, lock, record>>, phase # "down",
         NEW c \in {"open", "closed"}, conn' = [conn EXCEPT ![s] = c],
         NEW h \in {"none", "top", "recv", "save"}, handler' = [handler EXCEPT ![s] = h],
         NEW w \in [for: [token: Tokens \cup {NoToken}, node: Nodes \cup {"none"}],
                    st: {"none", "pending", "stored", "refused"}],
         write' = [write EXCEPT ![s] = w],
         \A t \in Streams : t # s => stream'[t] = stream[t],
         stream'[s] # Closed => h # "none", h = "save" => w.st # "none",
         lock = "serve" =>
            /\ h # "none" => stream'[s] # Closed
            /\ w.st = "pending" =>
                  /\ w.for # Closed /\ w.for.node \in Nodes
                  /\ record[w.for.node] = [token |-> w.for.token, status |-> "active"]
  PROVE  LIInv'
<1>1. /\ conn \in [Streams -> {"open", "closed"}]
      /\ handler \in [Streams -> {"none", "top", "recv", "save"}]
      /\ write \in [Streams -> [for: [token: Tokens \cup {NoToken}, node: Nodes \cup {"none"}],
                                st: {"none", "pending", "stored", "refused"}]]
  BY DEF LIInv, LInv
<1>2. /\ conn' \in [Streams -> {"open", "closed"}]
      /\ handler' \in [Streams -> {"none", "top", "recv", "save"}]
  BY <1>1
<1>3. write' \in [Streams -> [for: [token: Tokens \cup {NoToken}, node: Nodes \cup {"none"}],
                              st: {"none", "pending", "stored", "refused"}]]
  BY <1>1
<1>4. handler'[s] = h /\ write'[s] = w
  BY <1>1
<1>5. \A t \in Streams : t # s => handler'[t] = handler[t] /\ write'[t] = write[t]
  BY <1>1
<1>6. LInv'
  BY <1>2, <1>4, <1>5 DEF LIInv, LInv, process
<1>7. ASSUME NEW t \in Streams, lock' = "serve"
      PROVE  /\ handler'[t] # "none" => stream'[t] # Closed
             /\ write'[t].st = "pending" =>
                   /\ write'[t].for # Closed /\ write'[t].for.node \in Nodes
                   /\ record'[write'[t].for.node] =
                          [token |-> write'[t].for.token, status |-> "active"]
  <2>1. CASE t = s
    BY <1>4, <1>7, <2>1
  <2>2. CASE t # s
    BY <1>5, <1>7, <2>2 DEF LIInv
  <2> QED
    BY <2>1, <2>2
<1> QED
  BY <1>3, <1>6, <1>7 DEF LIInv, process

(***************************************************************************)
(* The steps of one stream.                                                *)
(***************************************************************************)
LEMMA StreamLIInv ==
  ASSUME LIInv, IInv', NEW s \in Streams, StreamStep(s)
  PROVE  LIInv'
<1> DEFINE Identity == [token: Tokens \cup {NoToken}, node: Nodes \cup {"none"}]
           Write == [for: Identity, st: {"none", "pending", "stored", "refused"}]
<1>1. /\ conn \in [Streams -> {"open", "closed"}]
      /\ handler \in [Streams -> {"none", "top", "recv", "save"}]
      /\ write \in [Streams -> Write] /\ stream \in [Streams -> Identity]
  BY DEF LIInv, LInv, IInv, TypeOK
<1>2. /\ conn[s] \in {"open", "closed"} /\ conn = [conn EXCEPT ![s] = conn[s]]
      /\ handler[s] \in {"none", "top", "recv", "save"} /\ handler = [handler EXCEPT ![s] = handler[s]]
  BY <1>1
<1>3. write[s] \in Write /\ write = [write EXCEPT ![s] = write[s]]
  BY <1>1
<1>4. phase = "down" => handler[s] = "none" /\ write[s] = NoWrite
  BY DEF LIInv, NoHandlers, NoWrites
<1>5. /\ stream[s] # Closed => handler[s] # "none"
      /\ handler[s] = "save" => write[s].st # "none"
      /\ lock = "serve" =>
            /\ handler[s] # "none" => stream[s] # Closed
            /\ write[s].st = "pending" =>
                  /\ write[s].for # Closed /\ write[s].for.node \in Nodes
                  /\ record[write[s].for.node] =
                         [token |-> write[s].for.token, status |-> "active"]
  BY DEF LIInv, LInv
<1>6. NoWrite \in Write /\ NoWrite.st = "none"
  BY DEF NoWrite, Closed
<1>7. ASSUME NEW token \in 1 .. issued, NEW n \in Nodes, StreamOpens(s, token, n)
      PROVE  LIInv'
  <2>1. stream'[s] # Closed /\ \A t \in Streams : t # s => stream'[t] = stream[t]
    <3>1. stream'[s] = [token |-> token, node |-> n] /\ token # NoToken
      <4>1. stream \in [Streams -> [token: Tokens \cup {NoToken}, node: Nodes \cup {"none"}]]
        BY <1>1 DEF IInv, TypeOK
      <4>2. stream' = [stream EXCEPT ![s] = [token |-> token, node |-> n]]
        BY <1>7 DEF StreamOpens, OpenStream
      <4>3. token # 0
        BY <1>1 DEF IInv, TypeOK
      <4> QED
        BY <4>1, <4>2, <4>3 DEF NoToken
    <3> QED
      BY <1>1, <1>7, <3>1 DEF StreamOpens, OpenStream, Closed
  <2>2. /\ UNCHANGED <<process, lock, record>> /\ phase # "down"
        /\ conn' = [conn EXCEPT ![s] = "open"] /\ handler' = [handler EXCEPT ![s] = "top"]
        /\ write' = [write EXCEPT ![s] = write[s]]
    BY <1>3, <1>7 DEF StreamOpens, OpenStream
  <2> QED
    BY <1>3, <1>5, <2>1, <2>2, OneStream
<1>8. CASE AgentLeaves(s)
  BY <1>8 DEF AgentLeaves, vars, process, LIInv, LInv
<1>9. CASE Receive(s)
  <2>1. /\ UNCHANGED <<process, lock, record, stream>> /\ phase # "down"
        /\ conn' = [conn EXCEPT ![s] = conn[s]] /\ handler' = [handler EXCEPT ![s] = "save"]
        /\ write' = [write EXCEPT ![s] = [for |-> stream[s], st |-> "pending"]]
    BY <1>2, <1>4, <1>9 DEF Receive, vars
  <2>2. lock = "serve" =>
           /\ stream[s] # Closed /\ stream[s].node \in Nodes
           /\ record[stream[s].node] = [token |-> stream[s].token, status |-> "active"]
    BY <1>5, <1>9 DEF Receive, LIInv, IInv, StreamTokenActive
  <2>3. [for |-> stream[s], st |-> "pending"] \in Write
    BY <1>1
  <2> QED
    BY <1>2, <2>1, <2>2, <2>3, OneStream
<1>10. CASE Commit(s) \/ Refuse(s)
  <2> DEFINE w(st) == [for |-> write[s].for, st |-> st]
  <2>1. PICK st \in {"stored", "refused"} : write' = [write EXCEPT ![s] = w(st)]
    BY <1>1, <1>3, <1>10 DEF Commit, Refuse
  <2>2. /\ UNCHANGED <<process, lock, record, stream>> /\ phase # "down"
        /\ conn' = [conn EXCEPT ![s] = conn[s]] /\ handler' = [handler EXCEPT ![s] = handler[s]]
    BY <1>2, <1>4, <1>6, <1>10 DEF Commit, Refuse, vars
  <2>3. w(st) \in Write /\ w(st).st \notin {"none", "pending"}
    BY <1>3
  <2> QED
    BY <1>2, <1>5, <2>1, <2>2, <2>3, OneStream
<1>11. CASE WriteReturns(s)
  <2> DEFINE h == IF handler[s] = "save" THEN "top" ELSE handler[s]
  <2>1. /\ UNCHANGED <<process, lock, record, stream>> /\ phase # "down"
        /\ conn' = [conn EXCEPT ![s] = conn[s]] /\ handler' = [handler EXCEPT ![s] = h]
        /\ write' = [write EXCEPT ![s] = NoWrite]
    BY <1>1, <1>2, <1>4, <1>6, <1>11 DEF WriteReturns, vars
  <2>2. h \in {"none", "top", "recv", "save"} /\ h # "save" /\ (h = "none" <=> handler[s] = "none")
    BY <1>2
  <2> HIDE DEF h
  <2> QED
    BY <1>2, <1>5, <1>6, <2>1, <2>2, OneStream
<1>12. CASE Checks(s) \/ WriteAbandoned(s)
  <2>1. PICK h \in {"top", "recv"} : handler' = [handler EXCEPT ![s] = h]
    BY <1>12 DEF Checks, WriteAbandoned
  <2>2. /\ UNCHANGED <<process, lock, record, stream>> /\ phase # "down"
        /\ conn' = [conn EXCEPT ![s] = conn[s]]
        /\ write' = [write EXCEPT ![s] = write[s]]
    BY <1>2, <1>3, <1>4, <1>12 DEF Checks, WriteAbandoned, vars
  <2>3. handler[s] # "none"
    BY <1>12 DEF Checks, WriteAbandoned
  <2> QED
    BY <1>2, <1>3, <1>5, <2>1, <2>2, <2>3, OneStream
<1>13. CASE HandlerReturns(s)
  <2>1. /\ UNCHANGED <<process, lock, record>> /\ phase # "down"
        /\ conn' = [conn EXCEPT ![s] = conn[s]] /\ handler' = [handler EXCEPT ![s] = "none"]
        /\ write' = [write EXCEPT ![s] = write[s]]
    BY <1>2, <1>3, <1>4, <1>13 DEF HandlerReturns, CloseStream, vars
  <2>2. stream'[s] = Closed /\ \A t \in Streams : t # s => stream'[t] = stream[t]
    BY <1>1, <1>13 DEF HandlerReturns, CloseStream, vars
  <2> QED
    BY <1>2, <1>3, <1>5, <2>1, <2>2, OneStream
<1> QED
  BY <1>7, <1>8, <1>9, <1>10, <1>11, <1>12, <1>13 DEF StreamStep

(***************************************************************************)
(* Every step keeps the invariant.                                         *)
(***************************************************************************)
LEMMA NextLIInv == LIInv /\ [LNext]_lvars => LIInv'
<1> SUFFICES ASSUME LIInv, [LNext]_lvars PROVE LIInv'
  OBVIOUS
<1>1. IInv'
  BY StepIsTokenStep, NextIInv DEF LIInv
<1>2. CASE UNCHANGED lvars
  BY <1>1, <1>2 DEF lvars, vars, process, streams, LIInv, LInv
<1> QED
  BY <1>1, <1>2, ProcessLIInv, StoreLIInv, CommandLIInv, StreamLIInv DEF LNext

(***************************************************************************)
(* A serve process, with handlers and writes that outlive connections and  *)
(* servers, and being stopped or killed at any point, implements           *)
(* TokenStore, so that everything proved of TokenStore holds of it.        *)
(***************************************************************************)
THEOREM LifecycleImplementsTokenStore == LSpec => Spec
<1>1. LInit => Init
  BY DEF LInit
<1> QED
  BY <1>1, StepIsTokenStep, PTL DEF LSpec, Spec

(***************************************************************************)
(* Every way from store.New to the end of the process closes the store,    *)
(* no authenticated identity is left without its handler, and every        *)
(* transaction on its way has a token that is still active.                *)
(***************************************************************************)
THEOREM LIInvHolds == LSpec => []LIInv
<1> QED
  BY InitLIInv, NextLIInv, PTL DEF LSpec

(***************************************************************************)
(* The value-log GC never works on a closed database.                      *)
(***************************************************************************)
THEOREM NoGcOnClosedStoreHolds == LSpec => []NoGcOnClosedStore
<1>1. LIInv => NoGcOnClosedStore
  BY DEF LIInv, LInv, NoGcOnClosedStore
<1> QED
  BY <1>1, InitLIInv, NextLIInv, PTL DEF LSpec

(***************************************************************************)
(* An event enters the store only under a token active at that moment,     *)
(* whatever its transaction has outlived (SaveEvent, Close, RevokeToken).  *)
(***************************************************************************)
THEOREM StoredUnderActiveTokenHolds == LSpec => StoredUnderActiveToken
<1> DEFINE Stored == \A s \in Streams :
              write[s].st = "pending" /\ write'[s].st = "stored" =>
                  /\ write[s].for # Closed
                  /\ record[write[s].for.node] =
                         [token |-> write[s].for.token, status |-> "active"]
<1>1. LIInv /\ [LNext]_lvars => [Stored]_lvars
  <2> SUFFICES ASSUME LIInv, LNext, NEW s \in Streams,
                      write[s].st = "pending", write'[s].st = "stored"
               PROVE  lock = "serve"
    BY DEF LIInv
  <2>1. ASSUME NEW t \in Streams, StreamStep(t) PROVE lock = "serve"
    <3>1. CASE Commit(t)
      BY <3>1 DEF Commit, CanCommit
    <3>2. CASE Receive(t) \/ Refuse(t) \/ WriteReturns(t)
      BY <3>2 DEF Receive, Refuse, WriteReturns, NoWrite, LIInv
    <3> QED
      BY <2>1, <3>1, <3>2
      DEF StreamStep, StreamOpens, AgentLeaves, Checks, WriteAbandoned, HandlerReturns
  <2>2. CASE Exit \/ Kill
    BY <2>2 DEF Exit, Kill, ProcessEnds, NoWrites, NoWrite
  <2> QED
    BY <2>1, <2>2
    DEF LNext, streams, StoreNew, RestStarts, Listens, StartFails, Signal, StopBegins,
        GracefulStopDone, GraceExpires, ServeFails, CloseBegins, GcRound, GcRoundEnds,
        GcStops, StoreCloses, RestRequest, RestAnswers, RestShutdown, RestEnds
<1> QED
  BY <1>1, InitLIInv, NextLIInv, PTL DEF LSpec, StoredUnderActiveToken
-----------------------------------------------------------------------------
(* The shutdown.  That it ends is a matter of fairness; that it has a step  *)
(* left to take in every state, and that nothing undoes one, is not.        *)

ShuttingDown == phase # "down" /\ (ctx = "done" \/ phase = "returned")

\* How far RunE is.
Stage ==
    [down |-> 0, starting |-> 1, listening |-> 2, serving |-> 3, stopping |-> 4,
     returned |-> 5, closing |-> 6, exiting |-> 7]

\* A step that needs no agent, no request and no transaction.
HasStep ==
    \/ phase \in {"starting", "listening"}               \* RestStarts, Listens, StartFails
    \/ phase = "serving" /\ ctx = "done"                 \* StopBegins
    \/ phase \in {"stopping", "returned", "exiting"}     \* GraceExpires, CloseBegins, Exit
    \/ phase = "closing" /\ gc \in {"idle", "round"}      \* GcStops, GcRoundEnds
    \/ phase = "closing" /\ GcDone /\ lock = "serve"     \* StoreCloses

NeverStuck == ShuttingDown => HasStep

\* A shutdown is not called off, and does not fall back.
OnlyOnwards ==
    ShuttingDown => phase' = "down" \/ (ShuttingDown' /\ Stage[phase'] >= Stage[phase])

(***************************************************************************)
(* The GC goroutine lives from store.New to Close, so that the receive of  *)
(* gcDone in Close always has somebody to wait for.                        *)
(***************************************************************************)
GcInv ==
    /\ phase \in DOMAIN Stage /\ ctx \in {"live", "done"} /\ gc \in {"off", "idle", "round", "done"}
    /\ phase = "down" => ctx = "live"
    /\ phase # "down" => gc # "off"
    /\ phase = "closing" => ctx = "done"

(***************************************************************************)
(* Steps of streams and token commands are not steps of the process.       *)
(***************************************************************************)
LEMMA ProcessSteps ==
  ASSUME [LNext]_lvars
  PROVE  \/ StoreNew \/ RestStarts \/ Listens \/ StartFails \/ Signal
         \/ StopBegins \/ GracefulStopDone \/ GraceExpires \/ ServeFails
         \/ CloseBegins \/ GcRound \/ GcRoundEnds \/ GcStops \/ StoreCloses
         \/ Exit \/ Kill
         \/ UNCHANGED <<phase, ctx, gc>>
<1>1. ASSUME NEW s \in Streams, StreamStep(s) PROVE UNCHANGED <<phase, ctx, gc>>
  BY <1>1 DEF StreamStep, StreamOpens, AgentLeaves, Checks, Receive, Commit, Refuse,
              WriteReturns, WriteAbandoned, HandlerReturns, process
<1>2. CASE RestRequest \/ RestAnswers \/ RestShutdown \/ RestEnds
  BY <1>2 DEF RestRequest, RestAnswers, RestShutdown, RestEnds
<1> QED
  BY <1>1, <1>2 DEF LNext, lvars, process

(***************************************************************************)
(* Every step keeps the GC goroutine there, and no step of a shutdown goes *)
(* back (RunE, Serve, Close).                                              *)
(***************************************************************************)
LEMMA StepGoesOn ==
  ASSUME GcInv, [LNext]_lvars
  PROVE  GcInv' /\ OnlyOnwards
<1> USE DEF GcInv, OnlyOnwards, ShuttingDown, Stage
<1>1. CASE StoreNew
  BY <1>1 DEF StoreNew
<1>2. CASE RestStarts \/ Listens \/ StartFails
  BY <1>2 DEF RestStarts, Listens, StartFails
<1>3. CASE Signal
  BY <1>3 DEF Signal
<1>4. CASE StopBegins \/ GracefulStopDone \/ GraceExpires
  BY <1>4 DEF StopBegins, GracefulStopDone, GraceExpires
<1>5. CASE ServeFails \/ CloseBegins
  BY <1>5 DEF ServeFails, CloseBegins
<1>6. CASE GcRound \/ GcRoundEnds \/ GcStops
  BY <1>6 DEF GcRound, GcRoundEnds, GcStops
<1>7. CASE StoreCloses
  BY <1>7 DEF StoreCloses, GcDone
<1>8. CASE Exit \/ Kill
  BY <1>8 DEF Exit, Kill, ProcessEnds
<1>9. CASE UNCHANGED <<phase, ctx, gc>>
  BY <1>9
<1> QED
  BY ONLY <1>1, <1>2, <1>3, <1>4, <1>5, <1>6, <1>7, <1>8, <1>9, ProcessSteps, [LNext]_lvars

(***************************************************************************)
(* From SIGTERM, or from the first error of start-up or of Serve, until    *)
(* the process is gone, it always has a step to take that depends on no    *)
(* agent, request or transaction.  In particular Close never waits for a   *)
(* GC goroutine that is not there, and the store is still open when it has *)
(* waited (RunE, Serve, Close, #117).                                      *)
(***************************************************************************)
THEOREM ShutdownNeverStuck == LSpec => []NeverStuck
<1>1. LInit => GcInv
  BY DEF LInit, GcInv, Stage
<1>2. GcInv /\ [LNext]_lvars => GcInv'
  BY StepGoesOn
<1>3. GcInv /\ LIInv => NeverStuck
  BY DEF GcInv, Stage, LIInv, LInv, NeverStuck, ShuttingDown, HasStep, GcDone
<1> QED
  BY <1>1, <1>2, <1>3, LIInvHolds, PTL DEF LSpec

(***************************************************************************)
(* A shutdown is never called off and never falls back to an earlier stage *)
(* of RunE, whatever agents, GC rounds and token commands do meanwhile.    *)
(***************************************************************************)
THEOREM ShutdownOnlyOnwards == LSpec => [][OnlyOnwards]_lvars
<1>1. LInit => GcInv
  BY DEF LInit, GcInv, Stage
<1>2. GcInv /\ [LNext]_lvars => GcInv' /\ OnlyOnwards
  BY StepGoesOn
<1> QED
  BY <1>1, <1>2, PTL DEF LSpec
=============================================================================
