------------------------------ MODULE HostWork ------------------------------
(***************************************************************************)
(* The host around the request queue of one text engine: the client        *)
(* threads that submit work items and wait for them, the callback the      *)
(* workers run (both src/server/core.c), the cancel flag of the sessions   *)
(* (src/server/session.c) and the stop and close of the host.  The queue   *)
(* itself is RequestQueue; its variables done and entry are item->done and *)
(* the item a worker executes.                                             *)
(***************************************************************************)
EXTENDS RequestQueue

VARIABLES
    host,       \* how far yvex_server_stop has come
    closing,    \* manager->closing
    client,     \* where the client thread of each item is
    lease,      \* items whose item->engine is set; each counts in active_work
    peerGone,   \* items whose peer has closed the connection
    cancelSent, \* cancel_sent of client_wait_work
    answered,   \* item->response_sent
    stage,      \* where the callback of each item is
    status,     \* the rc of the callback, or of request_enqueue
    turn,       \* the item whose turn is the active_turn of a session
    cancelReq   \* sessions whose cancel_requested is set

hostVars == <<host, closing>>
clientVars == <<client, peerGone, cancelSent>>
itemVars == <<lease, answered, stage, status>>
sessionVars == <<turn, cancelReq>>

hvars == <<vars, hostVars, clientVars, itemVars, sessionVars>>

\* The states of the host and of its work items.
HostTypeOK ==
    /\ TypeOK
    /\ host \in {"ready", "begun", "flagged", "stopped"} /\ closing \in BOOLEAN
    /\ client \in [Work -> {"idle", "leased", "wait", "peeked", "cancelling",
                            "reply", "left"}]
    /\ lease \subseteq Work /\ peerGone \subseteq Work
    /\ cancelSent \subseteq Work /\ answered \subseteq Work
    /\ stage \in [Work -> {"none", "admitted", "turn", "ended", "released"}]
    /\ status \in [Work -> {"none", "ok", "cancelled", "error"}]
    /\ turn \in [Key -> Work \cup {NoWork}] /\ cancelReq \subseteq Key

HostInit ==
    /\ Init
    /\ host = "ready" /\ closing = FALSE
    /\ client = [x \in Work |-> "idle"]
    /\ lease = {} /\ peerGone = {} /\ cancelSent = {} /\ answered = {}
    /\ stage = [x \in Work |-> "none"]
    /\ status = [x \in Work |-> "none"]
    /\ turn = [k \in Key |-> NoWork] /\ cancelReq = {}
-----------------------------------------------------------------------------
\* A send reaches a peer that is there; a success sets response_sent.
Sent(x) == answered \cup ({x} \ peerGone)

\* sessions_cancel_all: every session with an active turn.
ActiveKeys == {k \in Key : turn[k] # NoWork}

(***************************************************************************)
(* The client thread of one item.                                          *)
(***************************************************************************)

\* request_enqueue takes the lease first.  Before the engine is published, and
\* once the manager is closing, there is none to take.
Acquire(x) ==
    /\ client[x] = "idle"
    /\ \/ /\ owner = "serving" /\ ~closing
          /\ lease' = lease \cup {x}
          /\ client' = [client EXCEPT ![x] = "leased"]
          /\ UNCHANGED status
       \/ /\ owner # "serving" \/ closing
          /\ status' = [status EXCEPT ![x] = "error"]
          /\ client' = [client EXCEPT ![x] = "reply"]
          /\ UNCHANGED lease
    /\ UNCHANGED <<vars, hostVars, peerGone, cancelSent, answered, stage,
                   sessionVars>>

\* request_content_prepare or the received event fails.
PrepareFails(x) ==
    /\ client[x] = "leased"
    /\ lease' = lease \ {x}
    /\ status' = [status EXCEPT ![x] = "error"]
    /\ client' = [client EXCEPT ![x] = "reply"]
    /\ UNCHANGED <<vars, hostVars, peerGone, cancelSent, answered, stage,
                   sessionVars>>

\* The lease passes to the worker, or is released when submit refuses.
SubmitItem(x) ==
    /\ client[x] = "leased"
    /\ Submit(x)
    /\ \/ /\ result'[x] = "ok"
          /\ client' = [client EXCEPT ![x] = "wait"]
          /\ UNCHANGED <<lease, status>>
       \/ /\ result'[x] # "ok"
          /\ client' = [client EXCEPT ![x] = "reply"]
          /\ lease' = lease \ {x}
          /\ status' = [status EXCEPT ![x] = "error"]
    /\ UNCHANGED <<hostVars, peerGone, cancelSent, answered, stage,
                   sessionVars>>

\* client_wait_work wakes (100 ms at the latest), finds the peer gone and lets
\* the item mutex go before it calls yvex_server_engine_lease_cancel.
Peek(x) ==
    /\ client[x] = "wait" /\ x \notin done /\ x \notin cancelSent
    /\ x \in peerGone
    /\ client' = [client EXCEPT ![x] = "peeked"]
    /\ UNCHANGED <<vars, hostVars, peerGone, cancelSent, itemVars, sessionVars>>

\* lease_cancel reads item->engine with no lock: the worker may have released
\* it, and then there is nothing to cancel.
ReadLease(x) ==
    /\ client[x] = "peeked"
    /\ client' = [client EXCEPT ![x] = IF x \in lease THEN "cancelling"
                                       ELSE "wait"]
    /\ UNCHANGED <<vars, hostVars, peerGone, cancelSent, itemVars, sessionVars>>

\* yvex_server_sessions_cancel looks the session up by name: the turn it finds
\* active is the one it cancels.  Refused, the client tries again later.  Once
\* the engine is closed the registry is gone, and the call reads anything.
SessionsCancel(x) ==
    /\ client[x] = "cancelling"
    /\ \/ /\ turn[KeyOf[x]] # NoWork
          /\ cancelReq' = cancelReq \cup {KeyOf[x]}
          /\ cancelSent' = cancelSent \cup {x}
       \/ /\ turn[KeyOf[x]] = NoWork
          /\ UNCHANGED <<cancelReq, cancelSent>>
       \/ /\ owner = "closed"
          /\ cancelSent' = cancelSent \cup {x}
          /\ UNCHANGED cancelReq
    /\ client' = [client EXCEPT ![x] = "wait"]
    /\ UNCHANGED <<vars, hostVars, peerGone, itemVars, turn>>

\* The loop of client_wait_work ends.
Collect(x) ==
    /\ client[x] = "wait" /\ x \in done
    /\ client' = [client EXCEPT ![x] = "reply"]
    /\ UNCHANGED <<vars, hostVars, peerGone, cancelSent, itemVars, sessionVars>>

\* A failure nobody has reported is reported by the client thread.
Reply(x) ==
    /\ client[x] = "reply"
    /\ answered' = IF status[x] # "ok" /\ x \notin answered THEN Sent(x)
                   ELSE answered
    /\ client' = [client EXCEPT ![x] = "left"]
    /\ UNCHANGED <<vars, hostVars, peerGone, cancelSent, lease, stage, status,
                   sessionVars>>

ClientStep(x) ==
    \/ PrepareFails(x) \/ SubmitItem(x) \/ Peek(x) \/ ReadLease(x)
    \/ SessionsCancel(x) \/ Collect(x) \/ Reply(x)

PeerLeaves(x) ==
    /\ x \notin peerGone /\ client[x] # "left"
    /\ peerGone' = peerGone \cup {x}
    /\ UNCHANGED <<vars, hostVars, client, cancelSent, itemVars, sessionVars>>

\* YVEX_CLIENT_OP_GENERATION_CANCEL, under a lease of its own.
GenerationCancel(k) ==
    /\ owner = "serving" /\ ~closing
    /\ turn[k] # NoWork /\ k \notin cancelReq
    /\ cancelReq' = cancelReq \cup {k}
    /\ UNCHANGED <<vars, hostVars, clientVars, itemVars, turn>>
-----------------------------------------------------------------------------
(***************************************************************************)
(* model_work_execute, the callback of a worker w with the item entry[w].  *)
(***************************************************************************)
Executing(w, at) == pc[w] = "execute" /\ stage[entry[w]] = at

\* server->stopping is read once, at the start.
CallbackBegin(w) ==
    /\ Executing(w, "none")
    /\ \/ /\ host \in {"flagged", "stopped"}
          /\ stage' = [stage EXCEPT ![entry[w]] = "ended"]
          /\ status' = [status EXCEPT ![entry[w]] = "cancelled"]
       \/ /\ host \in {"ready", "begun"}
          /\ stage' = [stage EXCEPT ![entry[w]] = "admitted"]
          /\ UNCHANGED status
    /\ UNCHANGED <<vars, hostVars, clientVars, lease, answered, sessionVars>>

\* An operation other than a turn, or a turn refused before it is active.  A
\* success has been sent.
NoTurn(w) ==
    /\ Executing(w, "admitted")
    /\ \/ /\ entry[w] \notin peerGone
          /\ status' = [status EXCEPT ![entry[w]] = "ok"]
          /\ answered' = Sent(entry[w])
       \/ /\ status' = [status EXCEPT ![entry[w]] = "error"]
          /\ UNCHANGED answered
    /\ stage' = [stage EXCEPT ![entry[w]] = "ended"]
    /\ UNCHANGED <<vars, hostVars, clientVars, lease, sessionVars>>

\* session_turn clears cancel_requested, sets active_turn and sends
\* TURN_STARTED.
TurnBegin(w) ==
    /\ Executing(w, "admitted")
    /\ turn' = [turn EXCEPT ![KeyOf[entry[w]]] = entry[w]]
    /\ cancelReq' = cancelReq \ {KeyOf[entry[w]]}
    /\ answered' = Sent(entry[w])
    /\ stage' = [stage EXCEPT ![entry[w]] = "turn"]
    /\ UNCHANGED <<vars, hostVars, clientVars, lease, status>>

\* The turn is over and its terminal message sent.  Only a requested cancel
\* cancels it; one that comes too late does not.
TurnEnd(w) ==
    /\ Executing(w, "turn")
    /\ \E rc \in {"ok", "cancelled", "error"} :
          /\ rc = "ok" => entry[w] \notin peerGone
          /\ rc = "cancelled" => KeyOf[entry[w]] \in cancelReq
          /\ status' = [status EXCEPT ![entry[w]] = rc]
    /\ answered' = Sent(entry[w])
    /\ turn' = [turn EXCEPT ![KeyOf[entry[w]]] = NoWork]
    /\ stage' = [stage EXCEPT ![entry[w]] = "ended"]
    /\ UNCHANGED <<vars, hostVars, clientVars, lease, cancelReq>>

\* A failure nobody has reported is sent, then the lease is released.
ReleaseLease(w) ==
    /\ Executing(w, "ended")
    /\ answered' = IF status[entry[w]] # "ok" /\ entry[w] \notin answered
                   THEN Sent(entry[w]) ELSE answered
    /\ lease' = lease \ {entry[w]}
    /\ stage' = [stage EXCEPT ![entry[w]] = "released"]
    /\ UNCHANGED <<vars, hostVars, clientVars, status, sessionVars>>

\* item->done is set, and the callback returns to the worker.
ItemDone(w) ==
    /\ Executing(w, "released")
    /\ Execute(w)
    /\ UNCHANGED <<hostVars, clientVars, itemVars, sessionVars>>

Callback(w) ==
    \/ CallbackBegin(w) \/ NoTurn(w) \/ TurnBegin(w) \/ TurnEnd(w)
    \/ ReleaseLease(w) \/ ItemDone(w)

\* What the queue does by itself: its threads and the owner that opens it.
QueueStep(A) ==
    A /\ UNCHANGED <<hostVars, clientVars, itemVars, sessionVars>>

QueueWorker(w) == QueueStep(Exit(w) \/ Wait(w) \/ Select(w) \/ Release(w))
-----------------------------------------------------------------------------
(***************************************************************************)
(* yvex_server_stop in three steps (the status, the flag, cancel_all) and  *)
(* yvex_server_engine_manager_close, which a finish may begin as soon as   *)
(* another thread has begun the stop.                                      *)
(***************************************************************************)
StopQueue ==
    \/ owner = "serving" /\ RequestStop
    \/ (owner # "serving" \/ stopping) /\ UNCHANGED vars

StopBegin ==
    /\ host = "ready" /\ host' = "begun"
    /\ UNCHANGED <<vars, closing, clientVars, itemVars, sessionVars>>

StopFlag ==
    /\ host = "begun" /\ host' = "flagged"
    /\ UNCHANGED <<vars, closing, clientVars, itemVars, sessionVars>>

CancelAll ==
    /\ host = "flagged" /\ host' = "stopped"
    /\ cancelReq' = cancelReq \cup ActiveKeys
    /\ StopQueue
    /\ UNCHANGED <<closing, clientVars, itemVars, turn>>

ManagerClose ==
    /\ host # "ready" /\ ~closing
    /\ closing' = TRUE
    /\ cancelReq' = cancelReq \cup ActiveKeys
    /\ StopQueue
    /\ UNCHANGED <<host, clientVars, itemVars, turn>>

\* engine_close: after a failed load, or when active_work has reached zero.
EngineClose ==
    /\ owner = "open" \/ (closing /\ lease = {})
    /\ QueueStep(Finish)

HostClosed == QueueStep(Closed)

HostNext ==
    \/ QueueStep(Start) \/ QueueStep(CreateFails) \/ QueueStep(Join)
    \/ StopBegin \/ StopFlag \/ CancelAll \/ ManagerClose \/ EngineClose
    \/ HostClosed
    \/ \E w \in Worker : \/ QueueStep(CreateWorker(w)) \/ QueueWorker(w)
                         \/ QueueStep(SpuriousWakeup(w)) \/ Callback(w)
    \/ \E x \in Work : Acquire(x) \/ ClientStep(x) \/ PeerLeaves(x)
    \/ \E k \in Key : GenerationCancel(k)

HostSpec == HostInit /\ [][HostNext]_hvars
-----------------------------------------------------------------------------
(***************************************************************************)
(* What the host promises its clients.                                     *)
(***************************************************************************)

\* An active turn has its item's lease, and the engine is still serving:
\* engine_close never closes the sessions under a running turn, although the
\* lease is released by the worker and the close waits in another thread.
TurnLeased ==
    \A k \in Key : turn[k] # NoWork => turn[k] \in lease /\ owner = "serving"

\* session_turn stores active_turn without testing it: the queue alone keeps
\* a session from beginning a turn while another of its turns is active.
OneTurn ==
    [][\A k \in Key : turn[k] # NoWork => turn'[k] \in {turn[k], NoWork}]_hvars

\* "Cancellation targets the exact active request/turn and does not infer
\* identity from connection lifetime" (docs/contracts/local-protocol.md:146):
\* the cancel a client thread sends because its peer has left hits its own
\* turn.
OwnTurnOnly ==
    [][\A x \in Work : x \in cancelSent' \ cancelSent => turn[KeyOf[x]] = x]_hvars
=============================================================================
