----------------------------- MODULE TokenStore -----------------------------
(***************************************************************************)
(* Per-agent tokens: the records in the store (internal/store), the CLI    *)
(* commands that issue and revoke them (cmd/collector/token.go), and the   *)
(* collector that resolves a presented token once per stream               *)
(* (internal/receiver, checkAuth).                                         *)
(*                                                                         *)
(* IssueToken and RevokeToken read the record in one transaction and write *)
(* it in another; what keeps two of them, or one of them and the running   *)
(* collector, apart is BadgerDB's exclusive lock on the data directory,    *)
(* taken by store.New and released by Close or by the death of the process.*)
(*                                                                         *)
(* Tokens are numbers, never issued twice; a record holds its hash, and    *)
(* hashes of different tokens differ.  The collector runs with             *)
(* authentication switched on: without it checkAuth lets every stream      *)
(* through, and tokens and streams have nothing to do with each other.     *)
(***************************************************************************)
EXTENDS Integers

CONSTANTS
    Nodes,
    Procs,      \* token commands running at the same time
    Streams,    \* StreamEvents calls at the collector
    MaxTokens   \* bound on the tokens issued

ASSUME TokenAssumption == MaxTokens \in Nat

VARIABLES
    lock,     \* who holds the data directory: "none", "serve" or "cli"
    record,   \* the AgentToken record of each node
    cli,      \* the token commands
    stream,   \* the token each open stream authenticated with, and as whom
    issued,   \* how many tokens have been generated
    dead      \* history: tokens that have been revoked

vars == <<lock, record, cli, stream, issued, dead>>

NoToken == 0
Tokens == 1 .. MaxTokens
NoRecord == [token |-> NoToken, status |-> "none"]
Record == [token: Tokens \cup {NoToken}, status: {"none", "active", "revoked"}]
Closed == [token |-> NoToken, node |-> "none"]
NotRunning == [pc |-> "idle", node |-> "none", seen |-> NoRecord]

Init ==
    /\ lock = "none"
    /\ record = [n \in Nodes |-> NoRecord]
    /\ cli = [p \in Procs |-> NotRunning]
    /\ stream = [s \in Streams |-> Closed]
    /\ issued = 0
    /\ dead = {}
-----------------------------------------------------------------------------
\* Mutated form: the data directory can be opened while it is in use.
CanOpenShared == TRUE

\* store.New: BadgerDB's directory lock.
CanOpen == lock = "none"

\* token issue / token revoke: openTokenStore, then getAgentToken.
OpenAndGet(p, op, n) ==
    /\ cli[p].pc = "idle" /\ CanOpen
    /\ lock' = "cli"
    /\ cli' = [cli EXCEPT ![p] = [pc |-> op, node |-> n, seen |-> record[n]]]
    /\ UNCHANGED <<record, stream, issued, dead>>

\* The command ends and closes the store; so does the death of the process.
Close(p) ==
    /\ cli' = [cli EXCEPT ![p] = NotRunning]
    /\ lock' = "none"

\* IssueToken refuses with ErrTokenExists.
MayIssue(seen) == seen.status # "active"

\* The rest of IssueToken: generateToken and putAgentToken.
IssuePut(p) ==
    /\ cli[p].pc = "issue" /\ MayIssue(cli[p].seen)
    /\ issued < MaxTokens
    /\ issued' = issued + 1
    /\ record' = [record EXCEPT ![cli[p].node] =
                    [token |-> issued', status |-> "active"]]
    /\ Close(p)
    /\ UNCHANGED <<stream, dead>>

\* Mutated form: RevokedAt is set on a copy that is never written back.
RevokedUnmarked(seen) == seen

\* The record RevokeToken writes back.
Revoked(seen) == [seen EXCEPT !.status = "revoked"]

\* The rest of RevokeToken, when there is an active token to revoke.
RevokePut(p) ==
    /\ cli[p].pc = "revoke" /\ cli[p].seen.status = "active"
    /\ record' = [record EXCEPT ![cli[p].node] = Revoked(cli[p].seen)]
    /\ dead' = dead \cup {cli[p].seen.token}
    /\ Close(p)
    /\ UNCHANGED <<stream, issued>>

\* ErrTokenExists, nothing to revoke, a failed write, or a killed process.
GiveUp(p) ==
    /\ cli[p].pc # "idle"
    /\ Close(p)
    /\ UNCHANGED <<record, stream, issued, dead>>
-----------------------------------------------------------------------------
\* sentinel-collector serve opens the store.
ServeStart ==
    /\ CanOpen
    /\ lock' = "serve"
    /\ UNCHANGED <<record, cli, stream, issued, dead>>

\* serve closes the store, or its process dies: no stream can store anything
\* from here on (Lifecycle has the steps that lead here).
ServeStop ==
    /\ lock = "serve"
    /\ lock' = "none"
    /\ stream' = [s \in Streams |-> Closed]
    /\ UNCHANGED <<record, cli, issued, dead>>

\* Mutated form: revoked records are compared too.
MatchesAny(n, token) == record[n].status # "none" /\ record[n].token = token

\* The loop of LookupNodeID: skips revoked records, compares hashes.
Matches(n, token) == record[n].status = "active" /\ record[n].token = token

\* streamAuthInterceptor: a new stream presents a token, once.
OpenStream(s, token, n) ==
    /\ lock = "serve" /\ stream[s] = Closed
    /\ Matches(n, token)
    /\ stream' = [stream EXCEPT ![s] = [token |-> token, node |-> n]]
    /\ UNCHANGED <<lock, record, cli, issued, dead>>

CloseStream(s) ==
    /\ stream[s] # Closed
    /\ stream' = [stream EXCEPT ![s] = Closed]
    /\ UNCHANGED <<lock, record, cli, issued, dead>>

Command(p) ==
    \/ \E op \in {"issue", "revoke"}, n \in Nodes : OpenAndGet(p, op, n)
    \/ IssuePut(p) \/ RevokePut(p) \/ GiveUp(p)

Next ==
    \/ \E p \in Procs : Command(p)
    \/ ServeStart \/ ServeStop
    \/ \E s \in Streams : \/ \E token \in 1 .. issued, n \in Nodes :
                                 OpenStream(s, token, n)
                          \/ CloseStream(s)

Spec == Init /\ [][Next]_vars
-----------------------------------------------------------------------------
TypeOK ==
    /\ lock \in {"none", "serve", "cli"}
    /\ record \in [Nodes -> Record]
    /\ cli \in [Procs -> [pc: {"idle", "issue", "revoke"},
                          node: Nodes \cup {"none"}, seen: Record]]
    /\ stream \in [Streams -> [token: Tokens \cup {NoToken},
                               node: Nodes \cup {"none"}]]
    /\ issued \in 0 .. MaxTokens
    /\ dead \subseteq Tokens

(***************************************************************************)
(* A stream is authenticated once, when it opens, and never again.  Still, *)
(* no open stream ever rests on a token that has been revoked or replaced  *)
(* since: revoking needs the directory lock, so every stream is gone by    *)
(* then (token revoke: "immediately loses the ability to authenticate").   *)
(***************************************************************************)
StreamTokenActive ==
    \A s \in Streams : stream[s] # Closed =>
        record[stream[s].node] = [token |-> stream[s].token, status |-> "active"]

(***************************************************************************)
(* Although IssueToken checks and writes in two transactions, no order of  *)
(* commands replaces an active token: it has to be revoked first           *)
(* (ErrTokenExists).                                                       *)
(***************************************************************************)
OnlyRevokedReplaced ==
    [][\A n \in Nodes : record'[n].token # record[n].token =>
            record[n].status # "active"]_vars

(***************************************************************************)
(* A revoked token never becomes valid again, for no node.                 *)
(***************************************************************************)
RevokedStaysDead ==
    \A n \in Nodes : record[n].status = "active" => record[n].token \notin dead

(***************************************************************************)
(* The inductive strengthening: a running command holds the lock alone and *)
(* has seen the record as it still is; streams exist only while the        *)
(* collector holds the lock; tokens are numbered in the order of issue.    *)
(***************************************************************************)
IInv ==
    /\ TypeOK
    /\ StreamTokenActive
    /\ RevokedStaysDead
    /\ \A p \in Procs : cli[p].pc # "idle" =>
          /\ lock = "cli"
          /\ cli[p].node \in Nodes /\ cli[p].seen = record[cli[p].node]
          /\ \A q \in Procs : q # p => cli[q].pc = "idle"
    /\ \A s \in Streams : stream[s] # Closed =>
          lock = "serve" /\ stream[s].node \in Nodes
    /\ \A n \in Nodes : record[n].token <= issued
    /\ \A m, n \in Nodes : m # n /\ record[m].token = record[n].token =>
          record[m].token = NoToken
    /\ \A n \in Nodes : record[n].status # "none" => record[n].token # NoToken
    /\ \A token \in dead : token <= issued
=============================================================================
